---------------------------- MODULE Spec2Model ----------------------------
(***************************************************************************)
(* A model of the admin dashboard: the orders page (fetch, filter,         *)
(* aggregate, delete), the products page (fetch, delete) and the price     *)
(* utilities of src/utils/priceUtils.ts.                                   *)
(*                                                                         *)
(* Conventions.                                                            *)
(*  - A JavaScript string is a sequence of one-character strings.          *)
(*  - An optional value (a field that may be undefined) is a sequence of   *)
(*    length 0 (absent) or 1 (present).                                    *)
(*  - A timestamp string is a sequence of its components: <<day>> for a    *)
(*    date-only string ("2024-01-02"), <<day, hour>> for an ISO date-time. *)
(*  - A JSON value carries its type tag; numbers are integers (whole money *)
(*    units), NaN is a value of its own.                                   *)
(***************************************************************************)
EXTENDS Integers, Sequences, FiniteSets, TLC

VARIABLES
    \* ---- orders page (src/app/orders/page.tsx) ----
    page,            \* the route that is mounted: "orders" or "products"
    orders,          \* useState orders: the JSON value last given to setOrders
    filteredOrders,  \* useState filteredOrders
    loading,         \* useState loading
    searchTerm,      \* useState searchTerm
    statusFilter,    \* useState statusFilter
    paymentFilter,   \* useState paymentFilter
    dateRange,       \* useState dateRange: [startDate, endDate]
    stats,           \* getOrderStats() of the last completed render
    crashed,         \* a render or effect threw: the page is gone
    addons,          \* useState addons: the addon catalog of GET /api/addons
    exporting,       \* useState exporting
    alertMsg,        \* the alert() raised by the last step, <<>> when none
    orderFetches,    \* GET /api/orders requests in flight
    orderDeletes,    \* DELETE /api/orders/{id} requests in flight
    serverOrders,    \* the order rows the server holds
    ordersEvent,     \* the last handler step of the orders page
    \* ---- products page (src/app/products/page.tsx) ----
    products,        \* useState products
    productsLoading, \* useState loading
    productFetches,  \* GET /api/products requests in flight
    productDeletes,  \* DELETE /api/products/{id} requests in flight
    serverProducts,  \* the product rows the server holds
    productsEvent,   \* the last handler step of the products page
    \* ---- price utilities (src/utils/priceUtils.ts) ----
    bulkRules,       \* the caller's bulkRules array
    call             \* the last call of a function: its name, arguments, result

ordersVars == <<orders, filteredOrders, loading, searchTerm, statusFilter,
                paymentFilter, dateRange, stats, crashed, alertMsg,
                orderFetches, orderDeletes, serverOrders, ordersEvent>>
productsVars == <<products, productsLoading, productFetches, productDeletes,
                  serverProducts, productsEvent>>
utilVars == <<bulkRules, call>>
addonsVars == <<addons>>
exportVars == <<exporting>>
vars == <<page, ordersVars, addonsVars, exportVars, productsVars, utilVars>>

-----------------------------------------------------------------------------
(* Bounds *)

\* The longest list of orders the server returns under SpecFilter.
MaxOrders == 3
\* The most DELETE requests a page has in flight at once.
MaxInFlight == 2
\* The longest bulkRules array.
MaxRules == 3
\* The most entries of an attribute mapping.
MaxAttrs == 2
\* The largest price and comparePrice.
MaxPrice == 10
\* The most variants of a product.
MaxVariants == 3
\* The longest title given to generateSlug.
MaxTitle == 4
\* The most addon selections of a line item.
MaxAddons == 2

-----------------------------------------------------------------------------
(* JavaScript values *)

\* String.prototype.toLowerCase over the model's alphabet.
LowerChar(c) ==
    CASE c = "A" -> "a"
      [] c = "B" -> "b"
      [] c = "S" -> "s"
      [] c = "Z" -> "z"
      [] OTHER -> c

toLowerCase(s) == [i \in DOMAIN s |-> LowerChar(s[i])]

\* String.prototype.includes
includes(s, t) ==
    \E i \in 0..(Len(s) - Len(t)) : SubSeq(s, i + 1, i + Len(t)) = t

\* x?.toLowerCase().includes(t): undefined (falsy) when x is absent.
optIncludes(x, t) == Len(x) = 1 /\ includes(toLowerCase(x[1]), t)

\* new Date(s).valueOf(), in hours: a date-only string is UTC midnight.
NewDate(s) == IF Len(s) = 1 THEN s[1] * 24 ELSE s[1] * 24 + s[2]

Digits == {"0", "1", "2", "3", "4", "5", "6", "7", "8", "9"}

DigitVal(c) ==
    CASE c = "0" -> 0 [] c = "1" -> 1 [] c = "2" -> 2 [] c = "3" -> 3
      [] c = "4" -> 4 [] c = "5" -> 5 [] c = "6" -> 6 [] c = "7" -> 7
      [] c = "8" -> 8 [] c = "9" -> 9

RECURSIVE DigitPrefixLen(_)
DigitPrefixLen(s) ==
    IF s = <<>> \/ Head(s) \notin Digits THEN 0 ELSE 1 + DigitPrefixLen(Tail(s))

RECURSIVE DigitsValue(_)
DigitsValue(s) ==
    IF s = <<>> THEN 0 ELSE 10 * DigitsValue(SubSeq(s, 1, Len(s) - 1)) + DigitVal(s[Len(s)])

RECURSIVE NumToString(_)
NumToString(n) ==
    IF n < 10 THEN <<CHOOSE c \in Digits : DigitVal(c) = n>>
    ELSE NumToString(n \div 10) \o <<CHOOSE c \in Digits : DigitVal(c) = n % 10>>

-----------------------------------------------------------------------------
(* A JSON value of the totalAmount field: a number, a string, null, or      *)
(* undefined (the field is missing).                                        *)

Num(n) == [t |-> "number", n |-> n, s |-> <<>>]
StrV(s) == [t |-> "string", n |-> 0, s |-> s]
Null == [t |-> "null", n |-> 0, s |-> <<>>]
Undefined == [t |-> "undefined", n |-> 0, s |-> <<>>]

NaN == [t |-> "NaN", n |-> 0, s |-> <<>>]
\* Infinity and -Infinity: n is the sign.
Infinity == [t |-> "Infinity", n |-> 1, s |-> <<>>]
NegInfinity == [t |-> "Infinity", n |-> -1, s |-> <<>>]

InfinityText == <<"I", "n", "f", "i", "n", "i", "t", "y">>

\* typeof v === 'number'
TypeofNumber(v) == v.t \in {"number", "NaN", "Infinity"}

\* isNaN of a value whose typeof is number
IsNaN(v) == v.t = "NaN"

\* parseFloat(s): the value of the longest numeric prefix (an optional sign,
\* then digits or the word Infinity), NaN when there is none.
parseFloat(s) ==
    LET neg == s # <<>> /\ Head(s) = "-"
        body == IF neg THEN Tail(s) ELSE s
        n == DigitPrefixLen(body)
    IN  IF Len(body) >= 8 /\ SubSeq(body, 1, 8) = InfinityText
        THEN IF neg THEN NegInfinity ELSE Infinity
        ELSE IF n = 0 THEN NaN
        ELSE Num(IF neg THEN 0 - DigitsValue(SubSeq(body, 1, n))
                 ELSE DigitsValue(SubSeq(body, 1, n)))

\* ToBoolean(v)
Truthy(v) ==
    CASE v.t = "number" -> v.n # 0
      [] v.t = "string" -> v.s # <<>>
      [] v.t = "Infinity" -> TRUE
      [] OTHER -> FALSE

\* String(v)
String(v) ==
    CASE v.t = "number" ->
            IF v.n < 0 THEN <<"-">> \o NumToString(0 - v.n) ELSE NumToString(v.n)
      [] v.t = "string" -> v.s
      [] v.t = "Infinity" -> IF v.n < 0 THEN <<"-">> \o InfinityText ELSE InfinityText
      [] v.t = "NaN" -> <<"N", "a", "N">>
      [] v.t = "null" -> <<"n", "u", "l", "l">>
      [] v.t = "undefined" -> <<"u", "n", "d", "e", "f", "i", "n", "e", "d">>

-----------------------------------------------------------------------------
(* Addon selections and the shapes in which item.addons arrives *)

\* x is a present, non-empty optional string: what `if (x)` tests.
OptTruthy(x) == Len(x) = 1 /\ x[1] # <<>>

\* An addon selection as stored with a line item.  addonId is an identifier
\* (held whole), the three titles are optional strings, price and quantity
\* JSON values.
Addon(addonId, addonTitle, title, name, price, quantity) ==
    [addonId |-> addonId, addonTitle |-> addonTitle, title |-> title,
     name |-> name, price |-> price, quantity |-> quantity]

\* The value of item.addons: an array of selections, one selection (held as
\* the one element of arr), a string (text, held whole), a number, null or
\* undefined.
ArrayPayload(arr) == [t |-> "array", arr |-> arr, text |-> ""]
ObjectPayload(addon) == [t |-> "object", arr |-> <<addon>>, text |-> ""]
StringPayload(text) == [t |-> "string", arr |-> <<>>, text |-> text]
NumberPayload(text) == [t |-> "number", arr |-> <<>>, text |-> text]
NullPayload == [t |-> "null", arr |-> <<>>, text |-> ""]
UndefinedPayload == [t |-> "undefined", arr |-> <<>>, text |-> ""]
\* JSON.parse threw a SyntaxError.
Thrown == [t |-> "thrown", arr |-> <<>>, text |-> ""]

\* The selections the model's JSON texts encode.
A1 == Addon(<<"x1">>, <<(<<"G", "o", "l", "d">>)>>, <<(<<"T">>)>>, <<>>, Num(2), Num(3))
A2 == Addon(<<"x2">>, <<>>, <<>>, <<>>, StrV(<<"a", "b", "c">>), Undefined)

-----------------------------------------------------------------------------
(* The order rows the server can hold.  Between them they have every shape  *)
(* of the optional fields and of totalAmount.                               *)

\* A line item: an item has no variant title and no addons, and quantity 1,
\* unless said otherwise.
Item(name, sku) ==
    [productName |-> name, sku |-> sku, variantTitle |-> <<>>, quantity |-> Num(1),
     addons |-> UndefinedPayload]

\* The user of an order: name is optional.
User(name) == [name |-> name]

\* An order row.  Unless said otherwise it has no phone, no shipping address
\* and no user, a subtotal equal to its total, tax 0, and neither a shipping
\* amount, a discount amount nor a currency.
Order(id, num, email, first, last, items, status, pay, created, total) ==
    [id |-> id, orderNumber |-> num, email |-> email,
     shippingFirstName |-> first, shippingLastName |-> last, items |-> items,
     status |-> status, paymentStatus |-> pay, createdAt |-> created,
     totalAmount |-> total,
     phone |-> <<>>, subtotal |-> total, taxAmount |-> Num(0),
     shippingAmount |-> Undefined, discountAmount |-> Null, currency |-> <<>>,
     shippingAddress1 |-> <<>>, shippingCity |-> <<>>, shippingState |-> <<>>,
     shippingCountry |-> <<>>, user |-> <<>>]

\* O1 has a phone, a currency and a shipping address with a double quote in it.
O1 == [Order("o1", <<"A", "1">>, <<"a", "b">>, <<(<<"B", "o">>)>>, <<>>, <<>>,
             "pending", "pending", <<1, 10>>, Num(10))
       EXCEPT !.phone = <<(<<"5", "5">>)>>,
              !.currency = <<(<<"E", "U", "R">>)>>,
              !.shippingAddress1 = <<(<<"1", " ", "\"", "B", "\"">>)>>,
              !.shippingCity = <<(<<"X">>)>>]
\* O2 has a named user; its second item has a variant, quantity 2 and two addons.
O2 == [Order("o2", <<"B", "2">>, <<"b", "a">>, <<>>, <<(<<"A", "b">>)>>,
             <<(<<Item(<<"Z", "a", "b">>, <<>>),
                  [Item(<<"c">>, <<(<<"S", "1">>)>>)
                   EXCEPT !.variantTitle = <<(<<"L">>)>>,
                          !.quantity = Num(2),
                          !.addons = ArrayPayload(<<A1, A2>>)]>>)>>,
             "completed", "paid", <<2, 0>>, StrV(<<"1", "2">>))
       EXCEPT !.user = <<User(<<(<<"A", "l">>)>>)>>,
              !.shippingCountry = <<(<<"U", "K">>)>>]
O3 == Order("o3", <<"C", "3">>, <<"c">>, <<>>, <<>>, <<(<<>>)>>,
            "completed", "failed", <<2, 10>>, Undefined)
O4 == Order("o4", <<"D", "4">>, <<"d">>, <<(<<"a">>)>>, <<(<<"Z">>)>>, <<>>,
            "cancelled", "refunded", <<3, 5>>, StrV(<<"1", ",", "5">>))
\* The addons of the item of O5 arrive as a JSON text.
O5 == Order("o5", <<"E", "5">>, <<"e">>, <<>>, <<>>,
            <<(<<[Item(<<"b", "B">>, <<(<<"z">>)>>)
                  EXCEPT !.addons = StringPayload("[A1]")]>>)>>,
            "pending", "paid", <<3, 0>>, StrV(<<"a", "b", "c">>))
O6 == Order("o6", <<"F", "6">>, <<"f", "a">>, <<>>, <<>>, <<>>,
            "completed", "paid", <<1, 0>>, Null)

OrderUniverse == {O1, O2, O3, O4, O5, O6}

\* The lists of at most n distinct rows.
OrderLists(n) ==
    {l \in UNION {[1..k -> OrderUniverse] : k \in 0..n} :
        \A i, j \in DOMAIN l : i # j => l[i].id # l[j].id}

SearchTerms == {<<>>, <<"B">>, <<"s", "1">>, <<"A", "b">>}
StatusChoices == {"all", "pending", "completed"}
PaymentChoices == {"all", "paid"}
StartDateChoices == {<<>>, <<2>>, <<3>>}
EndDateChoices == {<<>>, <<2>>}

-----------------------------------------------------------------------------
(* filterOrders and getOrderStats *)

\* MatchesSearch with the term compared as typed (its toLowerCase() left out).
MatchesSearchTermAsTyped(order, term) ==
    \/ includes(toLowerCase(order.orderNumber), term)
    \/ includes(toLowerCase(order.email), term)
    \/ optIncludes(order.shippingFirstName, term)
    \/ optIncludes(order.shippingLastName, term)
    \/ /\ Len(order.items) = 1
       /\ \E k \in DOMAIN order.items[1] :
             \/ includes(toLowerCase(order.items[1][k].productName), term)
             \/ optIncludes(order.items[1][k].sku, term)

\* The predicate of the search filter (page.tsx 179-188).
MatchesSearch(order, term) ==
    LET t == toLowerCase(term)
    IN  \/ includes(toLowerCase(order.orderNumber), t)
        \/ includes(toLowerCase(order.email), t)
        \/ optIncludes(order.shippingFirstName, t)
        \/ optIncludes(order.shippingLastName, t)
        \/ /\ Len(order.items) = 1
           /\ \E k \in DOMAIN order.items[1] :
                 \/ includes(toLowerCase(order.items[1][k].productName), t)
                 \/ optIncludes(order.items[1][k].sku, t)

SearchFilter(list, term) ==
    IF term # <<>> THEN SelectSeq(list, LAMBDA o : MatchesSearch(o, term)) ELSE list

\* StatusFilter without the test of the sentinel "all".
StatusFilterNoSentinel(list, status) == SelectSeq(list, LAMBDA o : o.status = status)

StatusFilter(list, status) ==
    IF status # "all" THEN SelectSeq(list, LAMBDA o : o.status = status) ELSE list

PaymentFilter(list, payment) ==
    IF payment # "all" THEN SelectSeq(list, LAMBDA o : o.paymentStatus = payment)
    ELSE list

StartDateFilter(list, startDate) ==
    IF startDate # <<>>
    THEN SelectSeq(list, LAMBDA o : NewDate(o.createdAt) >= NewDate(startDate))
    ELSE list

\* EndDateFilter with the end bound exclusive.
EndDateFilterExclusive(list, endDate) ==
    IF endDate # <<>>
    THEN SelectSeq(list, LAMBDA o : NewDate(o.createdAt) < NewDate(endDate))
    ELSE list

EndDateFilter(list, endDate) ==
    IF endDate # <<>>
    THEN SelectSeq(list, LAMBDA o : NewDate(o.createdAt) <= NewDate(endDate))
    ELSE list

\* The list filterOrders hands to setFilteredOrders.
FilterOrders(list, term, status, payment, range) ==
    EndDateFilter(
        StartDateFilter(
            PaymentFilter(StatusFilter(SearchFilter(list, term), status), payment),
            range.startDate),
        range.endDate)

\* parseFloat(String(order.totalAmount || '0')) || 0, for the finite amounts
\* of the model's rows.
RevenueAmount(order) ==
    LET v == IF Truthy(order.totalAmount) THEN order.totalAmount ELSE StrV(<<"0">>)
        f == parseFloat(String(v))
    IN  IF Truthy(f) THEN f.n ELSE 0

RECURSIVE SumRevenue(_)
SumRevenue(list) ==
    IF list = <<>> THEN 0
    ELSE SumRevenue(SubSeq(list, 1, Len(list) - 1)) + RevenueAmount(list[Len(list)])

GetOrderStats(list) ==
    [totalOrders |-> Len(list),
     totalRevenue |-> SumRevenue(list),
     pendingOrders |-> Len(SelectSeq(list, LAMBDA o : o.status = "pending")),
     completedOrders |-> Len(SelectSeq(list, LAMBDA o : o.status = "completed"))]

-----------------------------------------------------------------------------
(* The orders page: state, requests and handlers *)

\* A JSON value given to setOrders / setProducts: an array of rows, or the
\* object an error response carries ({ error: ... }).
Arr(rows) == [isArray |-> TRUE, rows |-> rows]
ErrorBody == [isArray |-> FALSE, rows |-> <<>>]

\* What the server can answer to a GET of a list: 200 with the rows; a non-OK
\* status with a JSON body; a non-OK status whose body is not JSON (res.json()
\* rejects); no answer at all (fetch rejects).
FetchAnswers == {"ok", "errJson", "errText", "reject"}
\* What the server can answer to a DELETE.
DeleteAnswers == {"ok", "notOk", "reject"}

Event(op, id, resp, before) == [op |-> op, id |-> id, resp |-> resp, before |-> before]

Ids(rows) == {rows[i].id : i \in DOMAIN rows}

FiltersInactive(term, status, payment, range) ==
    term = <<>> /\ status = "all" /\ payment = "all"
    /\ range.startDate = <<>> /\ range.endDate = <<>>

\* What follows every state change of a handler: the render, the filter effect
\* (useEffect on orders and the four filters, page.tsx 90-92), and the render
\* that setFilteredOrders causes, which computes getOrderStats unless loading.
\* With orders not an array, filterOrders or getOrderStats throws a TypeError
\* (.filter / .reduce of an object) and the page is gone.
RunEffects ==
    IF orders'.isArray
    THEN /\ filteredOrders' =
              Arr(FilterOrders(orders'.rows, searchTerm', statusFilter',
                               paymentFilter', dateRange'))
         /\ stats' = IF loading' THEN stats ELSE GetOrderStats(filteredOrders'.rows)
         /\ crashed' = FALSE
    ELSE /\ filteredOrders' =
              IF FiltersInactive(searchTerm', statusFilter', paymentFilter', dateRange')
              THEN orders' ELSE filteredOrders
         /\ stats' = stats
         /\ crashed' = TRUE

OrdersPageUp == page = "orders" /\ ~crashed
\* The page body (filters, rows, buttons) is rendered only when not loading.
OrdersPageShown == OrdersPageUp /\ ~loading

UnchangedFilters == UNCHANGED <<searchTerm, statusFilter, paymentFilter, dateRange>>
UnchangedOthers == UNCHANGED <<page, addonsVars, exportVars, productsVars, utilVars>>

\* The Refresh button: fetchOrders up to its first await (page.tsx 94-97).
FetchOrders ==
    /\ OrdersPageShown
    /\ loading' = TRUE
    /\ orderFetches' = orderFetches \cup {[resp |-> "pending", body |-> Arr(<<>>)]}
    /\ alertMsg' = ""
    /\ ordersEvent' = Event("fetchOrders", "", "", orders)
    /\ UNCHANGED <<orders, orderDeletes, serverOrders>>
    /\ UnchangedFilters
    /\ RunEffects
    /\ UnchangedOthers

\* GET /api/orders on the server.
ServerAnswerOrders(r, kind) ==
    /\ page = "orders"
    /\ r \in orderFetches /\ r.resp = "pending"
    /\ orderFetches' = (orderFetches \ {r}) \cup
          {[resp |-> kind,
            body |-> CASE kind = "ok" -> Arr(serverOrders)
                       [] kind = "errJson" -> ErrorBody
                       [] OTHER -> Arr(<<>>)]}
    /\ UNCHANGED <<orders, filteredOrders, loading, stats, crashed, alertMsg,
                   orderDeletes, serverOrders, ordersEvent>>
    /\ UnchangedFilters
    /\ UnchangedOthers

\* A fetchOrders whose setLoading(false) is the last statement of the try
\* block and not a finally block: a thrown fetch or res.json() skips it.
FetchOrdersDoneNoFinally(r) ==
    /\ OrdersPageUp
    /\ r \in orderFetches /\ r.resp # "pending"
    /\ orders' = IF r.resp \in {"ok", "errJson"} THEN r.body ELSE orders
    /\ loading' = IF r.resp \in {"ok", "errJson"} THEN FALSE ELSE loading
    /\ orderFetches' = orderFetches \ {r}
    /\ alertMsg' = ""
    /\ ordersEvent' = Event("fetchDone", "", r.resp, orders)
    /\ UNCHANGED <<orderDeletes, serverOrders>>
    /\ UnchangedFilters
    /\ RunEffects
    /\ UnchangedOthers

\* fetchOrders from the end of its awaits (page.tsx 97-104): res.ok is not read.
FetchOrdersDone(r) ==
    /\ OrdersPageUp
    /\ r \in orderFetches /\ r.resp # "pending"
    /\ orders' = IF r.resp \in {"ok", "errJson"} THEN r.body ELSE orders
    /\ loading' = FALSE
    /\ orderFetches' = orderFetches \ {r}
    /\ alertMsg' = ""
    /\ ordersEvent' = Event("fetchDone", "", r.resp, orders)
    /\ UNCHANGED <<orderDeletes, serverOrders>>
    /\ UnchangedFilters
    /\ RunEffects
    /\ UnchangedOthers

\* handleDelete up to its await (page.tsx 216-219): the click on a row's Delete
\* button and the confirm() dialog.  The closure holds the orders of this render.
ClickDeleteOrder(id, confirmed) ==
    /\ OrdersPageShown
    /\ id \in Ids(filteredOrders.rows)
    /\ Cardinality(orderDeletes) < MaxInFlight
    /\ orderDeletes' =
          IF confirmed
          THEN orderDeletes \cup {[id |-> id, captured |-> orders.rows, resp |-> "pending"]}
          ELSE orderDeletes
    /\ alertMsg' = ""
    /\ ordersEvent' =
          Event(IF confirmed THEN "deleteSent" ELSE "deleteDeclined", id, "", orders)
    /\ UNCHANGED <<orders, loading, orderFetches, serverOrders>>
    /\ UnchangedFilters
    /\ RunEffects
    /\ UnchangedOthers

\* DELETE /api/orders/{id} on the server.
ServerAnswerDeleteOrder(d, kind) ==
    /\ page = "orders"
    /\ d \in orderDeletes /\ d.resp = "pending"
    /\ orderDeletes' = (orderDeletes \ {d}) \cup {[d EXCEPT !.resp = kind]}
    /\ serverOrders' =
          IF kind = "ok" THEN SelectSeq(serverOrders, LAMBDA o : o.id # d.id)
          ELSE serverOrders
    /\ UNCHANGED <<orders, filteredOrders, loading, stats, crashed, alertMsg,
                   orderFetches, ordersEvent>>
    /\ UnchangedFilters
    /\ UnchangedOthers

\* The list handleDelete gives to setOrders on a 200 (page.tsx 221): the orders
\* of the render in which the button was clicked, without the order.
OrdersAfterDelete(d) == SelectSeq(d.captured, LAMBDA o : o.id # d.id)

\* handleDelete from the end of its await (page.tsx 219-228).
DeleteOrderDone(d) ==
    /\ OrdersPageUp
    /\ d \in orderDeletes /\ d.resp # "pending"
    /\ orders' = IF d.resp = "ok" THEN Arr(OrdersAfterDelete(d)) ELSE orders
    /\ alertMsg' = IF d.resp = "ok" THEN "" ELSE "Failed to delete order"
    /\ orderDeletes' = orderDeletes \ {d}
    /\ ordersEvent' = Event("deleteDone", d.id, d.resp, orders)
    /\ UNCHANGED <<loading, orderFetches, serverOrders>>
    /\ UnchangedFilters
    /\ RunEffects
    /\ UnchangedOthers

\* The filter inputs' onChange handlers (page.tsx 424-468).
SetFilters(term, status, payment, range) ==
    /\ OrdersPageShown
    /\ searchTerm' = term
    /\ statusFilter' = status
    /\ paymentFilter' = payment
    /\ dateRange' = range
    /\ alertMsg' = ""
    /\ ordersEvent' = Event("setFilter", "", "", orders)
    /\ UNCHANGED <<orders, loading, orderFetches, orderDeletes, serverOrders>>
    /\ RunEffects
    /\ UnchangedOthers

SetSearchTerm(term) ==
    SetFilters(term, statusFilter, paymentFilter, dateRange)

SetStatusFilter(status) ==
    SetFilters(searchTerm, status, paymentFilter, dateRange)

SetPaymentFilter(payment) ==
    SetFilters(searchTerm, statusFilter, payment, dateRange)

SetStartDate(date) ==
    SetFilters(searchTerm, statusFilter, paymentFilter,
               [dateRange EXCEPT !.startDate = date])

SetEndDate(date) ==
    SetFilters(searchTerm, statusFilter, paymentFilter,
               [dateRange EXCEPT !.endDate = date])

-----------------------------------------------------------------------------
(* The products page *)

Product(id) == [product |-> [id |-> id]]
ProductRows == <<Product("p1"), Product("p2")>>

ProductIds(rows) == {rows[i].product.id : i \in DOMAIN rows}

ProductsPageUp == page = "products"
\* The table and its buttons are rendered only when not loading; an object in
\* products renders as the empty table (products.length > 0 is false).
ProductsPageShown == ProductsPageUp /\ ~productsLoading

UnchangedOrdersPage == UNCHANGED <<page, ordersVars, addonsVars, exportVars, utilVars>>

\* The Refresh button: fetchProducts up to its first await (products/page.tsx 11-14).
FetchProducts ==
    /\ ProductsPageShown
    /\ productsLoading' = TRUE
    /\ productFetches' = productFetches \cup {[resp |-> "pending", body |-> Arr(<<>>)]}
    /\ productsEvent' = Event("fetchProducts", "", "", products)
    /\ UNCHANGED <<products, productDeletes, serverProducts>>
    /\ UnchangedOrdersPage

\* GET /api/products on the server.
ServerAnswerProducts(r, kind) ==
    /\ ProductsPageUp
    /\ r \in productFetches /\ r.resp = "pending"
    /\ productFetches' = (productFetches \ {r}) \cup
          {[resp |-> kind,
            body |-> CASE kind = "ok" -> Arr(serverProducts)
                       [] kind = "errJson" -> ErrorBody
                       [] OTHER -> Arr(<<>>)]}
    /\ UNCHANGED <<products, productsLoading, productDeletes, serverProducts,
                   productsEvent>>
    /\ UnchangedOrdersPage

\* fetchProducts from the end of its awaits (products/page.tsx 14-21).
FetchProductsDone(r) ==
    /\ ProductsPageUp
    /\ r \in productFetches /\ r.resp # "pending"
    /\ products' = IF r.resp \in {"ok", "errJson"} THEN r.body ELSE products
    /\ productsLoading' = FALSE
    /\ productFetches' = productFetches \ {r}
    /\ productsEvent' = Event("fetchDone", "", r.resp, products)
    /\ UNCHANGED <<productDeletes, serverProducts>>
    /\ UnchangedOrdersPage

\* handleDelete up to its await (products/page.tsx 28-31).
ClickDeleteProduct(id, confirmed) ==
    /\ ProductsPageShown
    /\ products.isArray
    /\ id \in ProductIds(products.rows)
    /\ Cardinality(productDeletes) < MaxInFlight
    /\ productDeletes' =
          IF confirmed
          THEN productDeletes \cup
                  {[id |-> id, captured |-> products.rows, resp |-> "pending"]}
          ELSE productDeletes
    /\ productsEvent' =
          Event(IF confirmed THEN "deleteSent" ELSE "deleteDeclined", id, "", products)
    /\ UNCHANGED <<products, productsLoading, productFetches, serverProducts>>
    /\ UnchangedOrdersPage

\* DELETE /api/products/{id} on the server.
ServerAnswerDeleteProduct(d, kind) ==
    /\ ProductsPageUp
    /\ d \in productDeletes /\ d.resp = "pending"
    /\ productDeletes' = (productDeletes \ {d}) \cup {[d EXCEPT !.resp = kind]}
    /\ serverProducts' =
          IF kind = "ok" THEN SelectSeq(serverProducts, LAMBDA q : q.product.id # d.id)
          ELSE serverProducts
    /\ UNCHANGED <<products, productsLoading, productFetches, productsEvent>>
    /\ UnchangedOrdersPage

\* Whether handleDelete goes on to setProducts: the response is awaited and its
\* status never read (products/page.tsx 31-32), so any response does.
ProductDeleteApplies(resp) == resp \in {"ok", "notOk"}

\* handleDelete from the end of its await (products/page.tsx 31-35).
DeleteProductDone(d) ==
    /\ ProductsPageUp
    /\ d \in productDeletes /\ d.resp # "pending"
    /\ products' =
          IF ProductDeleteApplies(d.resp)
          THEN Arr(SelectSeq(d.captured, LAMBDA q : q.product.id # d.id))
          ELSE products
    /\ productDeletes' = productDeletes \ {d}
    /\ productsEvent' = Event("deleteDone", d.id, d.resp, products)
    /\ UNCHANGED <<productsLoading, productFetches, serverProducts>>
    /\ UnchangedOrdersPage

-----------------------------------------------------------------------------
(* Specifications of the two pages *)

ServerRows == <<O1, O2>>

NoRange == [startDate |-> <<>>, endDate |-> <<>>]
NoCall == [fn |-> "none", args |-> <<>>, result |-> <<>>]
PendingFetch == [resp |-> "pending", body |-> Arr(<<>>)]

\* The state after the first render and its effects (page.tsx 56-68, 85-92;
\* products/page.tsx 8-9, 24-26): the mounted page has its list request in flight.
InitPages(p, rows) ==
    /\ page = p
    /\ orders = Arr(<<>>)
    /\ filteredOrders = Arr(<<>>)
    /\ loading = TRUE
    /\ searchTerm = <<>>
    /\ statusFilter = "all"
    /\ paymentFilter = "all"
    /\ dateRange = NoRange
    /\ stats = GetOrderStats(<<>>)
    /\ crashed = FALSE
    /\ addons = <<>>
    /\ exporting = FALSE
    /\ alertMsg = ""
    /\ orderFetches = IF p = "orders" THEN {PendingFetch} ELSE {}
    /\ orderDeletes = {}
    /\ serverOrders = rows
    /\ ordersEvent = Event("mount", "", "", Arr(<<>>))
    /\ products = Arr(<<>>)
    /\ productsLoading = TRUE
    /\ productFetches = IF p = "products" THEN {PendingFetch} ELSE {}
    /\ productDeletes = {}
    /\ serverProducts = ProductRows
    /\ productsEvent = Event("mount", "", "", Arr(<<>>))
    /\ bulkRules = <<>>
    /\ call = NoCall

Init == \E p \in {"orders", "products"} : InitPages(p, ServerRows)

Next ==
    \/ FetchOrders
    \/ \E r \in orderFetches, kind \in FetchAnswers : ServerAnswerOrders(r, kind)
    \/ \E r \in orderFetches : FetchOrdersDone(r)
    \/ \E id \in Ids(ServerRows), c \in BOOLEAN : ClickDeleteOrder(id, c)
    \/ \E d \in orderDeletes, kind \in DeleteAnswers : ServerAnswerDeleteOrder(d, kind)
    \/ \E d \in orderDeletes : DeleteOrderDone(d)
    \/ \E st \in {"all", "completed"} : SetStatusFilter(st)
    \/ FetchProducts
    \/ \E r \in productFetches, kind \in FetchAnswers : ServerAnswerProducts(r, kind)
    \/ \E r \in productFetches : FetchProductsDone(r)
    \/ \E id \in ProductIds(ProductRows), c \in BOOLEAN : ClickDeleteProduct(id, c)
    \/ \E d \in productDeletes, kind \in DeleteAnswers : ServerAnswerDeleteProduct(d, kind)
    \/ \E d \in productDeletes : DeleteProductDone(d)

Spec == Init /\ [][Next]_vars

\* The orders page after loading any list, under every combination of filters.
InitFilter == \E rows \in OrderLists(MaxOrders) : InitPages("orders", rows)

NextFilter ==
    \/ \E r \in orderFetches : ServerAnswerOrders(r, "ok")
    \/ \E r \in orderFetches : FetchOrdersDone(r)
    \/ \E t \in SearchTerms : SetSearchTerm(t)
    \/ \E st \in StatusChoices : SetStatusFilter(st)
    \/ \E pay \in PaymentChoices : SetPaymentFilter(pay)
    \/ \E date \in StartDateChoices : SetStartDate(date)
    \/ \E date \in EndDateChoices : SetEndDate(date)

SpecFilter == InitFilter /\ [][NextFilter]_vars

-----------------------------------------------------------------------------
(* Properties of the two pages' request handling (under Spec) *)

Without(rows, id) == SelectSeq(rows, LAMBDA o : o.id # id)

\* C1: on the orders page, a declined confirmation, a rejected request and a
\* non-OK response leave orders as it was before the step, the two failures
\* raise the alert, and a 200 removes exactly the order with that id from
\* the list held before the step.
C1_DeleteOnlyAfterSuccess ==
    /\ ordersEvent.op = "deleteDeclined" =>
          orders = ordersEvent.before /\ alertMsg = ""
    /\ (ordersEvent.op = "deleteDone" /\ ordersEvent.resp # "ok") =>
          orders = ordersEvent.before /\ alertMsg = "Failed to delete order"
    /\ (ordersEvent.op = "deleteDone" /\ ordersEvent.resp = "ok") =>
          orders = Arr(Without(ordersEvent.before.rows, ordersEvent.id))

\* The part of C1 about failures alone: it holds of handleDelete.
DeleteFailureLeavesOrders ==
    /\ ordersEvent.op = "deleteDeclined" =>
          orders = ordersEvent.before /\ alertMsg = ""
    /\ (ordersEvent.op = "deleteDone" /\ ordersEvent.resp # "ok") =>
          orders = ordersEvent.before /\ alertMsg = "Failed to delete order"
    /\ orders # ordersEvent.before =>
          \/ ordersEvent.op = "deleteDone" /\ ordersEvent.resp = "ok"
          \/ ordersEvent.op = "fetchDone"

\* C2: on the products page, a non-OK response and a rejected request to
\* DELETE /api/products/{id} leave products as it was before the step.
C2_ProductDeleteOnlyAfterSuccess ==
    (productsEvent.op = "deleteDone" /\ productsEvent.resp # "ok") =>
        products = productsEvent.before

\* C3: a list fetch that fails (the fetch rejects, or the server answers with
\* a non-OK status) leaves orders / products as before the step, and leaves
\* no new request in flight.
C3_FailedFetchLeavesList ==
    /\ (ordersEvent.op = "fetchDone" /\ ordersEvent.resp # "ok") =>
          orders = ordersEvent.before /\ orderFetches = {}
    /\ (productsEvent.op = "fetchDone" /\ productsEvent.resp # "ok") =>
          products = productsEvent.before /\ productFetches = {}

\* The part of C3 about fetches that throw (a rejected fetch, a body that is
\* not JSON): it holds of both pages.
ThrownFetchLeavesList ==
    /\ (ordersEvent.op = "fetchDone" /\ ordersEvent.resp \in {"reject", "errText"}) =>
          orders = ordersEvent.before /\ orderFetches = {} /\ ~loading
    /\ (productsEvent.op = "fetchDone" /\ productsEvent.resp \in {"reject", "errText"}) =>
          products = productsEvent.before /\ productFetches = {} /\ ~productsLoading

-----------------------------------------------------------------------------
(* Properties of filtering and aggregation (under SpecFilter) *)

\* Two characters that are the same letter, whatever their case.
SameLetter(a, b) ==
    \/ a = b
    \/ {a, b} \in {{"a", "A"}, {"b", "B"}, {"s", "S"}, {"z", "Z"}}

\* t is a case-insensitive substring of s.
ContainsIgnoringCase(s, t) ==
    \E k \in 0..(Len(s) - Len(t)) : \A i \in 1..Len(t) : SameLetter(s[k + i], t[i])

\* The searchable text of an order: the fields that are present.
SearchableFields(o) ==
    {o.orderNumber, o.email}
    \cup {o.shippingFirstName[i] : i \in DOMAIN o.shippingFirstName}
    \cup {o.shippingLastName[i] : i \in DOMAIN o.shippingLastName}
    \cup UNION {{o.items[i][k].productName : k \in DOMAIN o.items[i]} : i \in DOMAIN o.items}
    \cup UNION {UNION {{o.items[i][k].sku[m] : m \in DOMAIN o.items[i][k].sku} :
                          k \in DOMAIN o.items[i]} : i \in DOMAIN o.items}

TextMatches(o) == \E f \in SearchableFields(o) : ContainsIgnoringCase(f, searchTerm)

InDateRange(o) ==
    /\ dateRange.startDate # <<>> => NewDate(o.createdAt) >= NewDate(dateRange.startDate)
    /\ dateRange.endDate # <<>> => NewDate(o.createdAt) <= NewDate(dateRange.endDate)

PassesEveryFilter(o) ==
    /\ searchTerm # <<>> => TextMatches(o)
    /\ statusFilter # "all" => o.status = statusFilter
    /\ paymentFilter # "all" => o.paymentStatus = paymentFilter
    /\ InDateRange(o)

Shown(o) == \E i \in DOMAIN filteredOrders.rows : filteredOrders.rows[i] = o

\* The position of a row in orders (ids are distinct).
PositionIn(rows, o) == CHOOSE j \in DOMAIN rows : rows[j] = o

\* C4: filteredOrders holds exactly the orders that pass every active filter,
\* each once and in the order they have in orders; "all" excludes nothing; and
\* under the status filter "completed" the completedOrders statistic is the
\* number of orders shown.
C4_FilterIsConjunction ==
    orders.isArray =>
        LET all == orders.rows
            shown == filteredOrders.rows
        IN  /\ \A i \in DOMAIN shown :
                  /\ \E j \in DOMAIN all : all[j] = shown[i]
                  /\ PassesEveryFilter(shown[i])
            /\ \A j \in DOMAIN all : PassesEveryFilter(all[j]) => Shown(all[j])
            /\ \A i1, i2 \in DOMAIN shown :
                  i1 < i2 => PositionIn(all, shown[i1]) < PositionIn(all, shown[i2])
            /\ (statusFilter = "completed" /\ ~loading) =>
                  /\ \A i \in DOMAIN shown : shown[i].status = "completed"
                  /\ stats.completedOrders = Len(shown)

\* Of three orders, pending, completed and completed, the status filter
\* "completed" shows exactly the two completed ones, in their order.
C4_Witness ==
    /\ ~loading /\ statusFilter = "completed" /\ paymentFilter = "all"
    /\ searchTerm = <<>> /\ dateRange = NoRange
    /\ orders.rows = <<O3, O1, O2>>
    /\ filteredOrders.rows = <<O3, O2>>
    /\ stats.completedOrders = 2

OnlySearchActive ==
    /\ searchTerm # <<>> /\ statusFilter = "all" /\ paymentFilter = "all"
    /\ dateRange = NoRange

\* C5: with a search term and no other filter, an order is shown iff the term
\* is a case-insensitive substring of its order number, its email, its shipping
\* first or last name, or the product name or SKU of one of its items, absent
\* fields counting for nothing.
C5_SearchMatchesAnyField ==
    (orders.isArray /\ OnlySearchActive) =>
        \A j \in DOMAIN orders.rows : Shown(orders.rows[j]) <=> TextMatches(orders.rows[j])

\* The term "s1" finds an order by the SKU "S1" of its second item, beside an
\* order with no shipping names and no items, which is not shown.
C5_Witness ==
    /\ ~loading /\ OnlySearchActive /\ searchTerm = <<"s", "1">>
    /\ Shown(O2)
    /\ \E j \in DOMAIN orders.rows :
          /\ orders.rows[j].shippingFirstName = <<>> /\ orders.rows[j].items = <<>>
          /\ ~Shown(orders.rows[j])

OnlyDatesActive ==
    /\ searchTerm = <<>> /\ statusFilter = "all" /\ paymentFilter = "all"
    /\ dateRange # NoRange

\* C6: with only the date range set, an order is shown iff its creation instant
\* is at or after the start, when a start is given, and at or before the end,
\* when an end is given.
C6_DateRangeInclusive ==
    (orders.isArray /\ OnlyDatesActive) =>
        \A j \in DOMAIN orders.rows : Shown(orders.rows[j]) <=> InDateRange(orders.rows[j])

\* Start and end are the same day: the order created at that instant is shown,
\* a later order of the list is not.
C6_Witness ==
    /\ ~loading /\ OnlyDatesActive
    /\ dateRange.startDate = <<2>> /\ dateRange.endDate = <<2>>
    /\ Shown(O2)
    /\ Len(filteredOrders.rows) < Len(orders.rows)

\* A numeric string: digits only.
IsNumericString(s) == s # <<>> /\ \A i \in DOMAIN s : s[i] \in Digits

\* What the claim has an order add to the revenue.
ClaimedAmount(o) ==
    CASE o.totalAmount.t = "number" -> o.totalAmount.n
      [] o.totalAmount.t = "string" /\ IsNumericString(o.totalAmount.s) ->
            DigitsValue(o.totalAmount.s)
      [] OTHER -> 0

RECURSIVE ClaimedRevenue(_)
ClaimedRevenue(rows) ==
    IF rows = <<>> THEN 0 ELSE ClaimedAmount(Head(rows)) + ClaimedRevenue(Tail(rows))

CountStatus(rows, status) == Cardinality({i \in DOMAIN rows : rows[i].status = status})

\* C7: the statistics are those of filteredOrders: its length, its numbers of
\* pending and of completed orders, and the sum of its totalAmounts, where a
\* number or a numeric string counts for its value and a missing, null or
\* non-numeric totalAmount for 0.
C7_StatsOfFilteredList ==
    (~loading /\ filteredOrders.isArray) =>
        /\ stats.totalOrders = Len(filteredOrders.rows)
        /\ stats.pendingOrders = CountStatus(filteredOrders.rows, "pending")
        /\ stats.completedOrders = CountStatus(filteredOrders.rows, "completed")
        /\ stats.totalRevenue = ClaimedRevenue(filteredOrders.rows)

\* The part of C7 that holds: the counts, and the revenue of lists whose
\* totalAmount strings are all digits or hold no leading digit.
StatsOfCleanList ==
    (~loading /\ filteredOrders.isArray) =>
        /\ stats.totalOrders = Len(filteredOrders.rows)
        /\ stats.pendingOrders = CountStatus(filteredOrders.rows, "pending")
        /\ stats.completedOrders = CountStatus(filteredOrders.rows, "completed")
        /\ (\A i \in DOMAIN filteredOrders.rows :
               LET a == filteredOrders.rows[i].totalAmount
               IN  a.t = "string" => IsNumericString(a.s) \/ DigitPrefixLen(a.s) = 0)
           => stats.totalRevenue = ClaimedRevenue(filteredOrders.rows)

-----------------------------------------------------------------------------
(* The price utilities (src/utils/priceUtils.ts) *)

\* Math.floor in the place of Math.round.
MathFloor(num, den) == num \div den

\* Math.round of the rational num / den, den > 0, num >= 0: halves go up.
MathRound(num, den) == (2 * num + den) \div (2 * den)

\* calculateDiscountPercentage(price, comparePrice); comparePrice is a JSON
\* value, as a caller may pass null or nothing.
CalculateDiscountPercentage(price, comparePrice) ==
    IF ~Truthy(comparePrice) \/ comparePrice.n <= price THEN 0
    ELSE MathRound((comparePrice.n - price) * 100, comparePrice.n)

Rule(minQty, discount) == [minQty |-> minQty, discount |-> discount]

\* Array.prototype.sort with (a, b) => a.minQty - b.minQty: ascending.
RECURSIVE SortByMinQtyAsc(_)
SortByMinQtyAsc(rules) ==
    IF rules = <<>> THEN <<>>
    ELSE LET rest == SortByMinQtyAsc(SubSeq(rules, 1, Len(rules) - 1))
             x == rules[Len(rules)]
             k == Cardinality({i \in DOMAIN rest : rest[i].minQty <= x.minQty})
         IN  SubSeq(rest, 1, k) \o <<x>> \o SubSeq(rest, k + 1, Len(rest))

\* Array.prototype.sort with (a, b) => b.minQty - a.minQty: a stable sort, in
\* descending minQty, rules of equal minQty keeping their order.
RECURSIVE SortByMinQtyDesc(_)
SortByMinQtyDesc(rules) ==
    IF rules = <<>> THEN <<>>
    ELSE LET rest == SortByMinQtyDesc(SubSeq(rules, 1, Len(rules) - 1))
             x == rules[Len(rules)]
             k == Cardinality({i \in DOMAIN rest : rest[i].minQty >= x.minQty})
         IN  SubSeq(rest, 1, k) \o <<x>> \o SubSeq(rest, k + 1, Len(rest))

\* The loop of calculateBulkPrice over the sorted rules: the discount of the
\* first rule that quantity reaches, 0 when there is none.
RECURSIVE ApplicableDiscount(_, _)
ApplicableDiscount(sorted, quantity) ==
    IF sorted = <<>> THEN 0
    ELSE IF quantity >= Head(sorted).minQty THEN Head(sorted).discount
    ELSE ApplicableDiscount(Tail(sorted), quantity)

\* The value calculateBulkPrice returns, in hundredths:
\* basePrice * (1 - applicableDiscount / 100) is BulkPrice / 100.
BulkPrice(basePrice, quantity, rules) ==
    basePrice * (100 - ApplicableDiscount(SortByMinQtyDesc(rules), quantity))

\* The characters of attribute keys and values.  "E9" is the precomposed
\* e-acute (U+00E9) and "301" the combining acute accent (U+0301): the strings
\* <<"E9">> and <<"e", "301">> differ and are canonically equivalent.
ProtoKey == <<"_", "_", "p", "r", "o", "t", "o", "_", "_">>

\* The canonical decomposition under which localeCompare compares.
RECURSIVE NFD(_)
NFD(str) ==
    IF str = <<>> THEN <<>>
    ELSE (IF Head(str) = "E9" THEN <<"e", "301">> ELSE <<Head(str)>>) \o NFD(Tail(str))

\* The collation order of the model's characters: punctuation before letters.
CharRank(c) ==
    CASE c = "301" -> 0 [] c = "_" -> 1 [] c = ":" -> 2 [] c = "|" -> 3
      [] c = "a" -> 4 [] c = "b" -> 5 [] c = "e" -> 6 [] c = "o" -> 7
      [] c = "p" -> 8 [] c = "r" -> 9 [] c = "t" -> 10 [] c = "x" -> 11
      [] c = "y" -> 12

RECURSIVE LexLess(_, _)
LexLess(a, b) ==
    IF b = <<>> THEN FALSE
    ELSE IF a = <<>> THEN TRUE
    ELSE IF Head(a) # Head(b) THEN CharRank(Head(a)) < CharRank(Head(b))
    ELSE LexLess(Tail(a), Tail(b))

\* a.localeCompare(b) < 0; canonically equivalent strings compare equal.
LocaleLess(a, b) == LexLess(NFD(a), NFD(b))

\* Object.entries(attributes).sort(([a], [b]) => a.localeCompare(b)); an
\* object is the sequence of its entries in insertion order.
RECURSIVE SortEntries(_)
SortEntries(entries) ==
    IF entries = <<>> THEN <<>>
    ELSE LET rest == SortEntries(SubSeq(entries, 1, Len(entries) - 1))
             x == entries[Len(entries)]
             k == Cardinality({i \in DOMAIN rest : ~LocaleLess(x.key, rest[i].key)})
         IN  SubSeq(rest, 1, k) \o <<x>> \o SubSeq(rest, k + 1, Len(rest))

\* Array.prototype.join
RECURSIVE Join(_, _)
Join(strings, sep) ==
    IF strings = <<>> THEN <<>>
    ELSE IF Len(strings) = 1 THEN strings[1]
    ELSE strings[1] \o sep \o Join(Tail(strings), sep)

\* generateAttributeKey without the sort: the entries in insertion order.
GenerateAttributeKeyUnsorted(attributes) ==
    Join([i \in DOMAIN attributes |-> attributes[i].key \o <<":">> \o attributes[i].value],
         <<"|">>)

GenerateAttributeKey(attributes) ==
    LET sorted == SortEntries(attributes)
    IN  Join([i \in DOMAIN sorted |-> sorted[i].key \o <<":">> \o sorted[i].value],
             <<"|">>)

\* String.prototype.split on a one-character separator.
RECURSIVE Split(_, _)
Split(str, sep) ==
    IF \A i \in DOMAIN str : str[i] # sep THEN <<str>>
    ELSE LET k == CHOOSE i \in DOMAIN str :
                      str[i] = sep /\ \A j \in 1..(i - 1) : str[j] # sep
         IN  <<SubSeq(str, 1, k - 1)>> \o Split(SubSeq(str, k + 1, Len(str)), sep)

\* attributes[key] = value on an object held as its entries.  An assignment
\* to __proto__ runs the setter of Object.prototype, which ignores a string.
SetEntry(entries, key, value) ==
    IF key = ProtoKey THEN entries
    ELSE IF \E i \in DOMAIN entries : entries[i].key = key
    THEN [i \in DOMAIN entries |->
             IF entries[i].key = key THEN [key |-> key, value |-> value] ELSE entries[i]]
    ELSE Append(entries, [key |-> key, value |-> value])

\* The forEach of parseAttributeKey over the pairs: [key, value] are the first
\* two pieces of pair.split(':'); a pair whose key or value is empty or
\* missing is skipped.
RECURSIVE ParsePairs(_, _)
ParsePairs(pairs, attributes) ==
    IF pairs = <<>> THEN attributes
    ELSE LET pieces == Split(Head(pairs), ":")
             kept == Len(pieces) >= 2 /\ pieces[1] # <<>> /\ pieces[2] # <<>>
         IN  ParsePairs(Tail(pairs),
                        IF kept THEN SetEntry(attributes, pieces[1], pieces[2])
                        ELSE attributes)

ParseAttributeKey(attributeKey) == ParsePairs(Split(attributeKey, "|"), <<>>)

\* formatPrice: price.toFixed(2) of a whole non-negative number.
FormatPrice(price) == NumToString(price) \o <<".", "0", "0">>

\* calculateProfitMargin(price, costPrice): (price - costPrice) / price is
\* -Infinity when price is 0 (costPrice is positive there), and Math.round
\* leaves an infinity as it is.
CalculateProfitMargin(price, costPrice) ==
    IF ~Truthy(costPrice) \/ costPrice.n <= 0 THEN Num(0)
    ELSE IF price = 0 THEN NegInfinity
    ELSE Num(MathRound(100 * (price - costPrice.n), price))

\* The first of the prices, whatever the others are.
FirstPrice(prices) == prices[1]

\* Math.min(...prices) and Math.max(...prices) of a non-empty array.
RECURSIVE MathMin(_)
MathMin(prices) ==
    IF Len(prices) = 1 THEN prices[1]
    ELSE LET m == MathMin(Tail(prices))
         IN  IF prices[1] < m THEN prices[1] ELSE m

RECURSIVE MathMax(_)
MathMax(prices) ==
    IF Len(prices) = 1 THEN prices[1]
    ELSE LET m == MathMax(Tail(prices))
         IN  IF prices[1] > m THEN prices[1] ELSE m

Variant(price) == [price |-> price]

RangeResult(min, max) ==
    [min |-> min, max |-> max,
     minFormatted |-> FormatPrice(min), maxFormatted |-> FormatPrice(max),
     range |-> IF min # max
               THEN FormatPrice(min) \o <<" ", "-", " ">> \o FormatPrice(max)
               ELSE FormatPrice(min),
     hasRange |-> min # max]

CalculatePriceRange(variants) ==
    IF Len(variants) = 0 THEN RangeResult(0, 0)
    ELSE LET prices == [i \in DOMAIN variants |-> variants[i].price]
         IN  RangeResult(MathMin(prices), MathMax(prices))

\* The characters [a-z0-9] of the model's alphabet.
LowerAlnum ==
    {"a", "b", "c", "d", "e", "f", "o", "p", "r", "s", "t", "x", "y", "z"} \cup Digits

\* The whitespace (\s) of the model's alphabet.
Whitespace == {" "}

\* String.prototype.trim
RECURSIVE Trim(_)
Trim(str) ==
    IF str = <<>> THEN <<>>
    ELSE IF Head(str) \in Whitespace THEN Trim(Tail(str))
    ELSE IF str[Len(str)] \in Whitespace THEN Trim(SubSeq(str, 1, Len(str) - 1))
    ELSE str

\* replace(/[\u0300-\u036f]/g, ''): the combining marks are removed.
RemoveAccents(str) == SelectSeq(str, LAMBDA c : c # "301")

\* replace(/[^a-z0-9\s-]/g, '')
RemoveNonAlnum(str) ==
    SelectSeq(str, LAMBDA c : c \in LowerAlnum \cup Whitespace \cup {"-"})

\* replace(/X+/g, '-') for a set X of characters: every maximal run of
\* characters of X becomes one hyphen.
RECURSIVE ReplaceRuns(_, _)
ReplaceRuns(str, X) ==
    IF str = <<>> THEN <<>>
    ELSE IF Head(str) \notin X THEN <<Head(str)>> \o ReplaceRuns(Tail(str), X)
    ELSE IF Len(str) >= 2 /\ str[2] \in X THEN ReplaceRuns(Tail(str), X)
    ELSE <<"-">> \o ReplaceRuns(Tail(str), X)

\* The hyphens left as they are.
KeepHyphens(str) == str

\* replace(/-+/g, '-')
CollapseHyphens(str) == ReplaceRuns(str, {"-"})

\* replace(/^-+|-+$/g, '')
RECURSIVE TrimHyphens(_)
TrimHyphens(str) ==
    IF str = <<>> THEN <<>>
    ELSE IF Head(str) = "-" THEN TrimHyphens(Tail(str))
    ELSE IF str[Len(str)] = "-" THEN TrimHyphens(SubSeq(str, 1, Len(str) - 1))
    ELSE str

\* generateSlug(title), title any value.
GenerateSlug(title) ==
    IF ~Truthy(title) \/ title.t # "string" THEN <<>>
    ELSE TrimHyphens(CollapseHyphens(ReplaceRuns(
             RemoveNonAlnum(RemoveAccents(NFD(Trim(toLowerCase(title.s))))),
             Whitespace)))

\* /^[a-z0-9]+(-[a-z0-9]+)*$/.test(rest), afterAlnum telling whether the
\* character before rest is one of [a-z0-9].
RECURSIVE SlugRegexTest(_, _)
SlugRegexTest(rest, afterAlnum) ==
    IF rest = <<>> THEN afterAlnum
    ELSE IF Head(rest) \in LowerAlnum THEN SlugRegexTest(Tail(rest), TRUE)
    ELSE IF Head(rest) = "-" /\ afterAlnum THEN SlugRegexTest(Tail(rest), FALSE)
    ELSE FALSE

\* isValidSlug(slug), slug any value.
IsValidSlug(slug) ==
    IF ~Truthy(slug) \/ slug.t # "string" THEN FALSE
    ELSE SlugRegexTest(slug.s, FALSE)

\* price >= 0 of a value whose typeof is number.
AtLeastZero(v) ==
    CASE v.t = "number" -> v.n >= 0
      [] v.t = "Infinity" -> v.n > 0
      [] OTHER -> FALSE

\* isValidPrice: nothing excludes Infinity.
IsValidPrice(price) == TypeofNumber(price) /\ AtLeastZero(price) /\ ~IsNaN(price)

\* sanitizePrice: parseFloat converts its argument to a string first.
SanitizePrice(price) ==
    LET parsed == parseFloat(String(price))
    IN  IF IsValidPrice(parsed) THEN parsed ELSE Num(0)

-----------------------------------------------------------------------------
(* Specifications of the price utilities.  A call is one step: call holds    *)
(* its name, its arguments as they were passed and its result, until the     *)
(* caller takes the result.                                                  *)

MinQtys == {3, 10}
Discounts == {10, 20}
Quantities == {2, 5, 10}
BasePrices == {40, 100}

Rules == {Rule(q, d) : q \in MinQtys, d \in Discounts}
RuleLists == UNION {[1..k -> Rules] : k \in 0..MaxRules}

AttrKeys == {<<"a">>, <<"b">>, <<>>, <<"E9">>, <<"e", "301">>, ProtoKey}
AttrValues == {<<"x">>, <<>>, <<"x", ":", "y">>, <<"|">>}
Entry(k, v) == [key |-> k, value |-> v]
\* The objects of at most MaxAttrs entries, each an insertion order of its keys.
AttrMaps ==
    {m \in UNION {[1..k -> {Entry(key, v) : key \in AttrKeys, v \in AttrValues}] :
                     k \in 0..MaxAttrs} :
        \A i, j \in DOMAIN m : i # j => m[i].key # m[j].key}

ComparePrices == {Null, Undefined} \cup {Num(n) : n \in 0..MaxPrice}

Idle == call.fn = "none"

InitUtils(rules) ==
    /\ page = "none"
    /\ orders = Arr(<<>>)
    /\ filteredOrders = Arr(<<>>)
    /\ loading = TRUE
    /\ searchTerm = <<>>
    /\ statusFilter = "all"
    /\ paymentFilter = "all"
    /\ dateRange = NoRange
    /\ stats = GetOrderStats(<<>>)
    /\ crashed = FALSE
    /\ addons = <<>>
    /\ exporting = FALSE
    /\ alertMsg = ""
    /\ orderFetches = {}
    /\ orderDeletes = {}
    /\ serverOrders = <<>>
    /\ ordersEvent = Event("mount", "", "", Arr(<<>>))
    /\ products = Arr(<<>>)
    /\ productsLoading = TRUE
    /\ productFetches = {}
    /\ productDeletes = {}
    /\ serverProducts = <<>>
    /\ productsEvent = Event("mount", "", "", Arr(<<>>))
    /\ bulkRules = rules
    /\ call = NoCall

UnchangedPages == UNCHANGED <<page, ordersVars, addonsVars, exportVars, productsVars>>

\* The caller takes the result.
Return ==
    /\ ~Idle
    /\ call' = NoCall
    /\ UNCHANGED bulkRules
    /\ UnchangedPages

\* calculateBulkPrice(basePrice, quantity, bulkRules): bulkRules.sort() sorts
\* the caller's array in place (priceUtils.ts 141).
CallCalculateBulkPrice(basePrice, quantity) ==
    /\ Idle
    /\ call' = [fn |-> "calculateBulkPrice",
                args |-> <<basePrice, quantity, bulkRules>>,
                result |-> BulkPrice(basePrice, quantity, bulkRules)]
    /\ bulkRules' = SortByMinQtyDesc(bulkRules)
    /\ UnchangedPages

InitBulk == \E rules \in RuleLists : InitUtils(rules)

NextBulk ==
    \/ \E b \in BasePrices, q \in Quantities : CallCalculateBulkPrice(b, q)
    \/ Return

SpecBulk == InitBulk /\ [][NextBulk]_vars

CallCalculateDiscountPercentage(price, comparePrice) ==
    /\ Idle
    /\ call' = [fn |-> "calculateDiscountPercentage",
                args |-> <<price, comparePrice>>,
                result |-> CalculateDiscountPercentage(price, comparePrice)]
    /\ UNCHANGED bulkRules
    /\ UnchangedPages

CallGenerateAttributeKey(attributes) ==
    /\ Idle
    /\ call' = [fn |-> "generateAttributeKey",
                args |-> <<attributes>>,
                result |-> GenerateAttributeKey(attributes)]
    /\ UNCHANGED bulkRules
    /\ UnchangedPages

\* parseAttributeKey(generateAttributeKey(attributes))
CallParseGeneratedKey(attributes) ==
    /\ Idle
    /\ call' = [fn |-> "parseAttributeKey.generateAttributeKey",
                args |-> <<attributes>>,
                result |-> ParseAttributeKey(GenerateAttributeKey(attributes))]
    /\ UNCHANGED bulkRules
    /\ UnchangedPages

InitPrice == InitUtils(<<>>)

NextPrice ==
    \/ Idle /\ \E p \in 0..MaxPrice, c \in ComparePrices :
                  CallCalculateDiscountPercentage(p, c)
    \/ Idle /\ \E m \in AttrMaps : CallGenerateAttributeKey(m)
    \/ Idle /\ \E m \in AttrMaps : CallParseGeneratedKey(m)
    \/ Return

SpecPrice == InitPrice /\ [][NextPrice]_vars

-----------------------------------------------------------------------------
(* Properties of calculateBulkPrice (under SpecBulk) *)

\* The arrangements of a sequence.
Arrangements(seq) ==
    {[i \in DOMAIN seq |-> seq[f[i]]] : f \in Permutations(DOMAIN seq)}

\* The rules that quantity reaches, and among them those of the largest minQty.
Qualifying(rules, quantity) == {i \in DOMAIN rules : quantity >= rules[i].minQty}
Largest(rules, quantity) ==
    {i \in Qualifying(rules, quantity) :
        \A j \in Qualifying(rules, quantity) : rules[j].minQty <= rules[i].minQty}

Discounted(basePrice, discount) == basePrice * (100 - discount)

\* C8 as stated: the result is basePrice less the discount of the rule of
\* largest minQty that quantity reaches, whichever rule that is, whatever the
\* order of the rules; it is basePrice when no rule is reached.
C8_LargestRuleAnyOrder ==
    call.fn = "calculateBulkPrice" =>
        LET basePrice == call.args[1]
            quantity == call.args[2]
            rules == call.args[3]
        IN  /\ Qualifying(rules, quantity) = {} => call.result = Discounted(basePrice, 0)
            /\ \A i \in Largest(rules, quantity) :
                  call.result = Discounted(basePrice, rules[i].discount)
            /\ \A other \in Arrangements(rules) :
                  BulkPrice(basePrice, quantity, other) = call.result

SomeMin(S) == CHOOSE i \in S : \A j \in S : i <= j

DistinctMinQtys(rules) == \A i, j \in DOMAIN rules : i # j => rules[i].minQty # rules[j].minQty

\* C8 as amended: of the rules of largest minQty that quantity reaches, the one
\* supplied first gives the discount; the result does not depend on the order
\* of the rules when no two of them share a minQty; it is basePrice when no
\* rule is reached.
C8_LargestRuleFirstSupplied ==
    call.fn = "calculateBulkPrice" =>
        LET basePrice == call.args[1]
            quantity == call.args[2]
            rules == call.args[3]
        IN  /\ Qualifying(rules, quantity) = {} => call.result = Discounted(basePrice, 0)
            /\ Qualifying(rules, quantity) # {} =>
                  call.result =
                      Discounted(basePrice, rules[SomeMin(Largest(rules, quantity))].discount)
            /\ DistinctMinQtys(rules) =>
                  \A other \in Arrangements(rules) :
                      BulkPrice(basePrice, quantity, other) = call.result

\* Quantity 5 reaches the two rules of minQty 3 and not the rule of minQty 10
\* supplied between them: the first of the two gives 10 percent off 100.
C8_Witness ==
    /\ call.fn = "calculateBulkPrice"
    /\ call.args = <<100, 5, <<Rule(3, 10), Rule(10, 20), Rule(3, 20)>>>>
    /\ call.result = 9000

-----------------------------------------------------------------------------
(* Properties of the attribute keys and of the discount (under SpecPrice) *)

NoDelimiter(str) == \A i \in DOMAIN str : str[i] \notin {":", "|"}
NoDelimiters(m) == \A i \in DOMAIN m : NoDelimiter(m[i].key) /\ NoDelimiter(m[i].value)

\* An object as the set of its entries: deep equality is equality of these.
EntrySet(m) == {m[i] : i \in DOMAIN m}

\* C9 as stated: for a mapping with no ':' and no '|' in its keys and values,
\* parsing the generated key gives the mapping back, and every insertion order
\* of the mapping generates the same key.
C9_RoundTripAnyMapping ==
    /\ (call.fn = "parseAttributeKey.generateAttributeKey" /\ NoDelimiters(call.args[1])) =>
          EntrySet(call.result) = EntrySet(call.args[1])
    /\ (call.fn = "generateAttributeKey" /\ NoDelimiters(call.args[1])) =>
          \A other \in Arrangements(call.args[1]) :
              GenerateAttributeKey(other) = call.result

\* Keys and values are non-empty and free of ':' and '|', and no key is __proto__.
PlainMapping(m) ==
    /\ NoDelimiters(m)
    /\ \A i \in DOMAIN m : m[i].key # <<>> /\ m[i].value # <<>> /\ m[i].key # ProtoKey

\* No two keys are canonically equivalent.
KeysDifferInCollation(m) ==
    \A i, j \in DOMAIN m : i # j => NFD(m[i].key) # NFD(m[j].key)

\* The string key:value|key:value of an arrangement.
RECURSIVE Written(_)
Written(m) ==
    IF m = <<>> THEN <<>>
    ELSE m[1].key \o <<":">> \o m[1].value
         \o (IF Len(m) = 1 THEN <<>> ELSE <<"|">> \o Written(Tail(m)))

KeysAscend(m) == \A i \in 1..(Len(m) - 1) : LexLess(NFD(m[i].key), NFD(m[i + 1].key))

\* C9 as amended: for a mapping whose keys and values are non-empty and hold no
\* ':' and no '|', and which has no key __proto__, parsing the generated key
\* gives the mapping back; and when moreover no two keys are canonically
\* equivalent, the generated key is the one string that writes the entries in
\* ascending key order, whatever the insertion order.
C9_RoundTripPlainMapping ==
    /\ (call.fn = "parseAttributeKey.generateAttributeKey" /\ PlainMapping(call.args[1])) =>
          EntrySet(call.result) = EntrySet(call.args[1])
    /\ (call.fn = "generateAttributeKey" /\ NoDelimiters(call.args[1])
        /\ KeysDifferInCollation(call.args[1])) =>
          /\ \A other \in Arrangements(call.args[1]) :
                GenerateAttributeKey(other) = call.result
          /\ \E sorted \in Arrangements(call.args[1]) :
                KeysAscend(sorted) /\ call.result = Written(sorted)

\* A mapping of two entries inserted in descending key order comes back whole.
C9_Witness ==
    /\ call.fn = "parseAttributeKey.generateAttributeKey"
    /\ call.args[1] = <<Entry(<<"b">>, <<"x">>), Entry(<<"E9">>, <<"x">>)>>
    /\ EntrySet(call.result) = {Entry(<<"b">>, <<"x">>), Entry(<<"E9">>, <<"x">>)}
    /\ call.result[1].key = <<"b">>

\* C10: calculateDiscountPercentage is 0 when comparePrice is absent, zero or
\* not above price, and otherwise the integer nearest to
\* 100 * (comparePrice - price) / comparePrice, halves going up; for
\* non-negative prices it lies in 0..100.
C10_DiscountPercentage ==
    call.fn = "calculateDiscountPercentage" =>
        LET price == call.args[1]
            compare == call.args[2]
            r == call.result
        IN  /\ r \in 0..100
            /\ (compare.t # "number" \/ compare.n = 0 \/ compare.n <= price) => r = 0
            /\ (compare.t = "number" /\ compare.n > price) =>
                  /\ 2 * compare.n * r <= 200 * (compare.n - price) + compare.n
                  /\ 200 * (compare.n - price) + compare.n < 2 * compare.n * (r + 1)

\* 7 against 8 is 12.5 percent off, rounded up to 13.
C10_Witness ==
    /\ call.fn = "calculateDiscountPercentage"
    /\ call.args = <<7, Num(8)>>
    /\ call.result = 13

-----------------------------------------------------------------------------
(* Specification of the numeric price utilities *)

CostPrices == {Null, Undefined, NaN} \cup {Num(n) : n \in (0 - 1)..MaxPrice}

VariantLists == UNION {[1..k -> {Variant(n) : n \in 0..MaxPrice}] : k \in 0..MaxVariants}

PriceTexts ==
    {<<>>, <<"1", "2">>, <<"a", "b", "c">>, <<"-", "5">>, <<"7", "x">>,
     InfinityText, <<"-">> \o InfinityText}

\* The values handed to isValidPrice and sanitizePrice (price: any).
PriceInputs ==
    {Num(n) : n \in (0 - 1)..MaxPrice} \cup {NaN, Infinity, NegInfinity, Null, Undefined}
    \cup {StrV(t) : t \in PriceTexts}

CallCalculateProfitMargin(price, costPrice) ==
    /\ Idle
    /\ call' = [fn |-> "calculateProfitMargin",
                args |-> <<price, costPrice>>,
                result |-> CalculateProfitMargin(price, costPrice)]
    /\ UNCHANGED bulkRules
    /\ UnchangedPages

CallCalculatePriceRange(variants) ==
    /\ Idle
    /\ call' = [fn |-> "calculatePriceRange",
                args |-> <<variants>>,
                result |-> CalculatePriceRange(variants)]
    /\ UNCHANGED bulkRules
    /\ UnchangedPages

CallIsValidPrice(price) ==
    /\ Idle
    /\ call' = [fn |-> "isValidPrice",
                args |-> <<price>>,
                result |-> IsValidPrice(price)]
    /\ UNCHANGED bulkRules
    /\ UnchangedPages

CallSanitizePrice(price) ==
    /\ Idle
    /\ call' = [fn |-> "sanitizePrice",
                args |-> <<price>>,
                result |-> SanitizePrice(price)]
    /\ UNCHANGED bulkRules
    /\ UnchangedPages

InitNumber == InitUtils(<<>>)

NextNumber ==
    \/ Idle /\ \E p \in 0..MaxPrice, c \in CostPrices : CallCalculateProfitMargin(p, c)
    \/ Idle /\ \E v \in VariantLists : CallCalculatePriceRange(v)
    \/ Idle /\ \E v \in PriceInputs : CallIsValidPrice(v)
    \/ Idle /\ \E v \in PriceInputs : CallSanitizePrice(v)
    \/ Return

SpecNumber == InitNumber /\ [][NextNumber]_vars

-----------------------------------------------------------------------------
(* Properties of the numeric price utilities (under SpecNumber) *)

\* r is the integer nearest to 100 * num / den, halves going up (den > 0).
NearestPercent(r, num, den) ==
    /\ 2 * den * r <= 200 * num + den
    /\ 200 * num + den < 2 * den * (r + 1)

\* C11: calculateProfitMargin is 0 when costPrice is absent or not positive,
\* otherwise the integer nearest to 100 * (price - costPrice) / price, and it
\* is a finite number for every price >= 0, price 0 included.
C11_ProfitMarginFinite ==
    call.fn = "calculateProfitMargin" =>
        LET price == call.args[1]
            cost == call.args[2]
            r == call.result
        IN  /\ r.t = "number"
            /\ (cost.t # "number" \/ cost.n <= 0) => r = Num(0)
            /\ (cost.t = "number" /\ cost.n > 0 /\ price > 0) =>
                  NearestPercent(r.n, price - cost.n, price)

\* The part of C11 that holds: the margin of a positive price.
ProfitMarginOfPositivePrice ==
    (call.fn = "calculateProfitMargin" /\ call.args[1] > 0) =>
        LET price == call.args[1]
            cost == call.args[2]
            r == call.result
        IN  /\ r.t = "number"
            /\ (cost.t # "number" \/ cost.n <= 0) => r = Num(0)
            /\ (cost.t = "number" /\ cost.n > 0) =>
                  NearestPercent(r.n, price - cost.n, price)

\* str writes the whole number n with two decimals.
TwoDecimals(str, n) ==
    /\ Len(str) >= 4
    /\ SubSeq(str, Len(str) - 2, Len(str)) = <<".", "0", "0">>
    /\ IsNumericString(SubSeq(str, 1, Len(str) - 3))
    /\ DigitsValue(SubSeq(str, 1, Len(str) - 3)) = n

\* C12: min and max of calculatePriceRange are the smallest and the largest
\* variant price; hasRange says whether they differ; range is the formatted
\* min alone when they do not, and "min - max", both formatted, when they do;
\* no variants give min 0, max 0 and no range.
C12_PriceRange ==
    call.fn = "calculatePriceRange" =>
        LET variants == call.args[1]
            r == call.result
        IN  /\ variants = <<>> => r.min = 0 /\ r.max = 0 /\ ~r.hasRange
            /\ variants # <<>> =>
                  /\ \E i \in DOMAIN variants : variants[i].price = r.min
                  /\ \E i \in DOMAIN variants : variants[i].price = r.max
                  /\ \A i \in DOMAIN variants :
                        r.min <= variants[i].price /\ variants[i].price <= r.max
            /\ r.min <= r.max
            /\ r.hasRange <=> r.min # r.max
            /\ TwoDecimals(r.minFormatted, r.min)
            /\ TwoDecimals(r.maxFormatted, r.max)
            /\ r.range = IF r.hasRange
                         THEN r.minFormatted \o <<" ", "-", " ">> \o r.maxFormatted
                         ELSE r.minFormatted

\* Three variants whose smallest price comes last: "5.00 - 10.00".
C12_Witness ==
    /\ call.fn = "calculatePriceRange"
    /\ call.args[1] = <<Variant(7), Variant(10), Variant(5)>>
    /\ call.result.min = 5 /\ call.result.max = 10 /\ call.result.hasRange
    /\ call.result.range =
          <<"5", ".", "0", "0", " ", "-", " ", "1", "0", ".", "0", "0">>

FiniteNonNegative(v) == v.t = "number" /\ v.n >= 0

\* C14: isValidPrice(v) is true exactly when v is a finite non-negative
\* number; sanitizePrice(v) is parseFloat(v) when that is a valid price and 0
\* otherwise, and is always a finite non-negative number.
C14_ValidPriceIsFinite ==
    /\ call.fn = "isValidPrice" =>
          (call.result <=> FiniteNonNegative(call.args[1]))
    /\ call.fn = "sanitizePrice" =>
          /\ FiniteNonNegative(call.result)
          /\ call.result =
                LET parsed == parseFloat(String(call.args[1]))
                IN  IF IsValidPrice(parsed) THEN parsed ELSE Num(0)

\* The part of C14 that holds: apart from Infinity, the valid prices are the
\* finite non-negative numbers, and sanitizePrice gives one of them or Infinity.
ValidPriceApartFromInfinity ==
    /\ (call.fn = "isValidPrice" /\ call.args[1] # Infinity) =>
          (call.result <=> FiniteNonNegative(call.args[1]))
    /\ call.fn = "sanitizePrice" =>
          FiniteNonNegative(call.result) \/ call.result = Infinity


-----------------------------------------------------------------------------
(* Specification of the slug utilities *)

\* "E9" is the precomposed e-acute, "!" a character outside [a-z0-9\s-].
TitleChars == {"a", "A", "1", " ", "-", "!", "E9"}

TitleTexts == UNION {[1..k -> TitleChars] : k \in 0..MaxTitle}

\* The values handed to generateSlug and isValidSlug.
Titles == {StrV(t) : t \in TitleTexts} \cup {Null, Undefined, Num(0), Num(5)}

CallGenerateSlug(title) ==
    /\ Idle
    /\ call' = [fn |-> "generateSlug",
                args |-> <<title>>,
                result |-> GenerateSlug(title)]
    /\ UNCHANGED bulkRules
    /\ UnchangedPages

CallIsValidSlug(slug) ==
    /\ Idle
    /\ call' = [fn |-> "isValidSlug",
                args |-> <<slug>>,
                result |-> IsValidSlug(slug)]
    /\ UNCHANGED bulkRules
    /\ UnchangedPages

InitSlug == InitUtils(<<>>)

NextSlug ==
    \/ Idle /\ \E t \in Titles : CallGenerateSlug(t)
    \/ Idle /\ \E t \in Titles : CallIsValidSlug(t)
    \/ Return

SpecSlug == InitSlug /\ [][NextSlug]_vars

-----------------------------------------------------------------------------
(* Properties of the slug utilities (under SpecSlug) *)

\* One or more non-empty segments of [a-z0-9], joined by single hyphens.
HyphenatedSegments(str) ==
    LET segments == Split(str, "-")
    IN  \A i \in DOMAIN segments :
            /\ segments[i] # <<>>
            /\ \A j \in DOMAIN segments[i] : segments[i][j] \in LowerAlnum

\* C13: generateSlug gives the empty string, always so for an empty or
\* non-string title, or a string that isValidSlug accepts; isValidSlug accepts
\* exactly the strings made of non-empty lowercase alphanumeric segments
\* joined by single hyphens; and generateSlug of a slug is that slug.
C13_SlugIsValidOrEmpty ==
    /\ call.fn = "generateSlug" =>
          LET title == call.args[1]
              slug == call.result
          IN  /\ (title.t # "string" \/ title.s = <<>>) => slug = <<>>
              /\ slug = <<>> \/ IsValidSlug(StrV(slug))
              /\ slug = <<>> \/ HyphenatedSegments(slug)
              /\ GenerateSlug(StrV(slug)) = slug
    /\ call.fn = "isValidSlug" =>
          (call.result <=>
              (call.args[1].t = "string" /\ HyphenatedSegments(call.args[1].s)))

\* An accented letter, whitespace around a hyphen, and a digit: "e-1".
C13_Witness ==
    /\ call.fn = "generateSlug"
    /\ call.args[1] = StrV(<<"E9", " ", "-", "1">>)
    /\ call.result = <<"e", "-", "1">>


-----------------------------------------------------------------------------
(* The orders page: addon payloads and titles, amounts (page.tsx 107-162,   *)
(* 330-348, 553-578) and the price cell of the products page.               *)

\* JSON.parse over the model's texts.  A text is held whole and named by the
\* value it encodes: "A1" is the JSON text of the object A1, "[A2,A1]" that of
\* an array of two objects; any other text ("{", "") is not JSON.
JsonParse(text) ==
    CASE text = "[]" -> ArrayPayload(<<>>)
      [] text = "[A1]" -> ArrayPayload(<<A1>>)
      [] text = "[A2,A1]" -> ArrayPayload(<<A2, A1>>)
      [] text = "A1" -> ObjectPayload(A1)
      [] text = "null" -> NullPayload
      [] text = "5" -> NumberPayload("5")
      [] OTHER -> Thrown

\* !addonsData is false
PayloadTruthy(d) ==
    CASE d.t \in {"array", "object"} -> TRUE
      [] d.t = "string" -> d.text # ""
      [] d.t = "number" -> d.text # "0"
      [] OTHER -> FALSE

\* parseAddons: the catch returns [] when JSON.parse throws.
ParseAddons(addonsData) ==
    IF ~PayloadTruthy(addonsData) THEN <<>>
    ELSE IF addonsData.t = "array" THEN addonsData.arr
    ELSE IF addonsData.t = "string"
    THEN LET parsed == JsonParse(addonsData.text)
         IN  IF parsed.t = "array" THEN parsed.arr ELSE <<>>
    ELSE IF addonsData.t = "object" THEN <<addonsData.arr[1]>>
    ELSE <<>>

\* An entry of the addon catalog (GET /api/addons).
CatalogEntry(id, title) == [id |-> id, title |-> title]

PositionalLabel(index) == <<"A", "d", "d", "o", "n", " ">> \o NumToString(index + 1)

\* getAddonTitle(addon, index), catalog being the addons of the render.
GetAddonTitle(addon, index, catalog) ==
    IF OptTruthy(addon.addonTitle) THEN addon.addonTitle[1]
    ELSE IF OptTruthy(addon.title) THEN addon.title[1]
    ELSE IF OptTruthy(addon.name) THEN addon.name[1]
    ELSE IF /\ Len(addon.addonId) = 1 /\ addon.addonId[1] # ""
            /\ Len(catalog) > 0
            /\ \E i \in DOMAIN catalog : catalog[i].id = addon.addonId[1]
    THEN LET k == CHOOSE i \in DOMAIN catalog :
                      /\ catalog[i].id = addon.addonId[1]
                      /\ \A j \in 1..(i - 1) : catalog[j].id # addon.addonId[1]
         IN  catalog[k].title
    ELSE PositionalLabel(index)

\* The expanded item view (page.tsx 524, 554-557): the titles of the parsed
\* addons, each resolved with its index.
RenderAddonTitles(addonsData, catalog) ==
    LET parsedAddons == ParseAddons(addonsData)
    IN  [i \in DOMAIN parsedAddons |-> GetAddonTitle(parsedAddons[i], i - 1, catalog)]

\* The CSV items summary (page.tsx 255-256): the titles of item.addons when
\* it is a non-empty array, each resolved with index 0.
ExportAddonTitles(addonsData, catalog) ==
    IF PayloadTruthy(addonsData) /\ addonsData.t = "array" /\ Len(addonsData.arr) > 0
    THEN [i \in DOMAIN addonsData.arr |-> GetAddonTitle(addonsData.arr[i], 0, catalog)]
    ELSE <<>>

\* Number(v): a string converts whole or not at all; null is 0, '' is 0.
NumberOf(v) ==
    CASE v.t = "string" ->
            IF v.s = <<>> THEN Num(0)
            ELSE IF \/ IsNumericString(v.s)
                    \/ (Head(v.s) = "-" /\ IsNumericString(Tail(v.s)))
                    \/ v.s \in {InfinityText, <<"-">> \o InfinityText}
            THEN parseFloat(v.s) ELSE NaN
      [] v.t = "null" -> Num(0)
      [] v.t = "undefined" -> NaN
      [] OTHER -> v

\* Number.prototype.toFixed(2) of a whole number, of NaN and of an infinity.
ToFixed2(v) == IF v.t = "number" THEN String(v) \o <<".", "0", "0">> ELSE String(v)

\* formatCurrency(amount): the text beside the currency symbol.
FormatCurrency(amount) ==
    LET numAmount == NumberOf(amount)
    IN  IF IsNaN(numAmount) \/ amount.t = "null" \/ amount.t = "undefined"
        THEN <<"0", ".", "0", "0">>
        ELSE ToFixed2(numAmount)

\* Number(addon.price) || 0 and Number(addon.quantity) || 1 (page.tsx 557-558, 576).
AddonPrice(addon) ==
    LET n == NumberOf(addon.price) IN IF Truthy(n) THEN n ELSE Num(0)
AddonQuantity(addon) ==
    LET n == NumberOf(addon.quantity) IN IF Truthy(n) THEN n ELSE Num(1)

\* formatCurrency(safeAddon.price * safeAddon.quantity), for finite prices.
AddonLineTotal(addon) ==
    FormatCurrency(Num(AddonPrice(addon).n * AddonQuantity(addon).n))

\* formatPrice of the products page (products/page.tsx 39-50): the text of the
\* price cell.  NaN.toFixed(2) is "NaN".
ProductsFormatPrice(price, productType) ==
    LET numPrice == parseFloat(String(price))
    IN  IF productType = "group" /\ numPrice = Num(0)
        THEN <<"F", "r", "o", "m", " ", "a", "d", "d", "o", "n", "s">>
        ELSE ToFixed2(numPrice)


-----------------------------------------------------------------------------
(* Specification of the render-time functions of the two pages: a page      *)
(* loads its list, the addon catalog arrives, and the functions are called  *)
(* by the render of the loaded page.                                        *)

AddonCatalog ==
    <<CatalogEntry("x1", <<"C", "1">>), CatalogEntry("x2", <<"C", "2">>),
      CatalogEntry("x1", <<"C", "3">>)>>

\* Selections with every combination of the three embedded titles, with an
\* identifier the catalog has, one it has not, and none; and one whose
\* addonTitle is the empty string.
AddonChoices ==
    {Addon(id, at, ti, na, Num(2), Num(1)) :
        id \in {<<>>, <<"x1">>, <<"x9">>},
        at \in {<<>>, <<(<<"G">>)>>},
        ti \in {<<>>, <<(<<"T">>)>>},
        na \in {<<>>, <<(<<"N">>)>>}}
    \cup {Addon(<<"x2">>, <<(<<>>)>>, <<>>, <<>>, Num(2), Num(1))}

AddonArrays == UNION {[1..k -> AddonChoices] : k \in 0..MaxAddons}

JsonTexts == {"", "[]", "[A1]", "[A2,A1]", "A1", "null", "5", "{"}

Payloads ==
    {ArrayPayload(a) : a \in AddonArrays}
    \cup {ObjectPayload(a) : a \in AddonChoices}
    \cup {StringPayload(t) : t \in JsonTexts}
    \cup {NumberPayload("5"), NumberPayload("0"), NullPayload, UndefinedPayload}

\* Prices and amounts as the API can deliver them.
AmountInputs ==
    {Num(0), Num(12), Null, Undefined, NaN}
    \cup {StrV(t) : t \in {<<>>, <<"1", "2">>, <<"a", "b", "c">>, <<"1", ",", "5">>,
                           <<"7", "x">>}}

\* fetchAddons on a 200 (page.tsx 107-117); any other outcome changes nothing.
FetchAddonsDone ==
    /\ page = "orders"
    /\ addons = <<>>
    /\ addons' = AddonCatalog
    /\ UNCHANGED <<page, ordersVars, exportVars, productsVars, utilVars>>

CallParseAddons(addonsData) ==
    /\ Idle
    /\ call' = [fn |-> "parseAddons",
                args |-> <<addonsData>>,
                result |-> ParseAddons(addonsData)]
    /\ UNCHANGED bulkRules
    /\ UnchangedPages

CallRenderAddonTitles(addonsData) ==
    /\ Idle
    /\ call' = [fn |-> "getAddonTitle.render",
                args |-> <<addonsData, addons>>,
                result |-> RenderAddonTitles(addonsData, addons)]
    /\ UNCHANGED bulkRules
    /\ UnchangedPages

CallExportAddonTitles(addonsData) ==
    /\ Idle
    /\ call' = [fn |-> "getAddonTitle.export",
                args |-> <<addonsData, addons>>,
                result |-> ExportAddonTitles(addonsData, addons)]
    /\ UNCHANGED bulkRules
    /\ UnchangedPages

CallFormatCurrency(amount) ==
    /\ Idle
    /\ call' = [fn |-> "formatCurrency",
                args |-> <<amount>>,
                result |-> FormatCurrency(amount)]
    /\ UNCHANGED bulkRules
    /\ UnchangedPages

\* The price of safeAddon and the line total shown for it.
CallAddonPrice(price, quantity) ==
    /\ Idle
    /\ call' = LET addon == Addon(<<"x1">>, <<>>, <<>>, <<>>, price, quantity)
               IN  [fn |-> "safeAddon.price",
                    args |-> <<price, quantity>>,
                    result |-> <<AddonPrice(addon), AddonLineTotal(addon)>>]
    /\ UNCHANGED bulkRules
    /\ UnchangedPages

\* The amount getOrderStats adds for an order.
CallRevenueAmount(totalAmount) ==
    /\ Idle
    /\ call' = [fn |-> "getOrderStats.amount",
                args |-> <<totalAmount>>,
                result |-> RevenueAmount([totalAmount |-> totalAmount])]
    /\ UNCHANGED bulkRules
    /\ UnchangedPages

CallProductsFormatPrice(price, productType) ==
    /\ Idle
    /\ call' = [fn |-> "formatPrice",
                args |-> <<price, productType>>,
                result |-> ProductsFormatPrice(price, productType)]
    /\ UNCHANGED bulkRules
    /\ UnchangedPages

InitView == Init

NextView ==
    \/ \E r \in orderFetches : ServerAnswerOrders(r, "ok")
    \/ \E r \in orderFetches : FetchOrdersDone(r)
    \/ \E r \in productFetches : ServerAnswerProducts(r, "ok")
    \/ \E r \in productFetches : FetchProductsDone(r)
    \/ FetchAddonsDone
    \/ OrdersPageShown /\ Idle /\ \E d \in Payloads : CallParseAddons(d)
    \/ OrdersPageShown /\ Idle /\ \E d \in Payloads : CallRenderAddonTitles(d)
    \/ OrdersPageShown /\ Idle /\ \E d \in Payloads : CallExportAddonTitles(d)
    \/ OrdersPageShown /\ Idle /\ \E a \in AmountInputs : CallFormatCurrency(a)
    \/ OrdersPageShown /\ Idle /\ \E a, q \in AmountInputs : CallAddonPrice(a, q)
    \/ OrdersPageShown /\ Idle /\ \E a \in AmountInputs : CallRevenueAmount(a)
    \/ ProductsPageShown /\ Idle
          /\ \E a \in AmountInputs, ty \in {"simple", "group"} : CallProductsFormatPrice(a, ty)
    \/ Return

SpecView == InitView /\ [][NextView]_vars


-----------------------------------------------------------------------------
(* Properties of the render-time functions (under SpecView) *)

\* The title the priority rule gives the selection at a 1-based position.
TitleByPriority(addon, position, catalog) ==
    CASE OptTruthy(addon.addonTitle) -> addon.addonTitle[1]
      [] ~OptTruthy(addon.addonTitle) /\ OptTruthy(addon.title) -> addon.title[1]
      [] ~OptTruthy(addon.addonTitle) /\ ~OptTruthy(addon.title)
         /\ OptTruthy(addon.name) -> addon.name[1]
      [] OTHER ->
            LET matches == {i \in DOMAIN catalog :
                               Len(addon.addonId) = 1 /\ catalog[i].id = addon.addonId[1]}
            IN  IF matches # {} THEN catalog[SomeMin(matches)].title
                ELSE <<"A", "d", "d", "o", "n", " ">> \o NumToString(position)

\* C15: at both sites that resolve titles, the expanded item view and the CSV
\* items summary, the title of each selection is its addonTitle, else its
\* title, else its name, else the title of the catalog entry of its addonId,
\* else "Addon N" with N its 1-based position among the item's addons.
C15_TitleByPriorityAtBothSites ==
    /\ call.fn = "getAddonTitle.render" =>
          LET selections == ParseAddons(call.args[1])
          IN  /\ Len(call.result) = Len(selections)
              /\ \A i \in DOMAIN selections :
                    call.result[i] = TitleByPriority(selections[i], i, call.args[2])
    /\ (call.fn = "getAddonTitle.export" /\ call.args[1].t = "array") =>
          LET selections == call.args[1].arr
          IN  /\ Len(call.result) = Len(selections)
              /\ \A i \in DOMAIN selections :
                    call.result[i] = TitleByPriority(selections[i], i, call.args[2])

\* The part of C15 that holds: the expanded item view, and in the CSV summary
\* every selection that does not fall back to its position.
TitleByPriorityWherePositionIsKnown ==
    /\ call.fn = "getAddonTitle.render" =>
          LET selections == ParseAddons(call.args[1])
          IN  /\ Len(call.result) = Len(selections)
              /\ \A i \in DOMAIN selections :
                    call.result[i] = TitleByPriority(selections[i], i, call.args[2])
    /\ (call.fn = "getAddonTitle.export" /\ call.args[1].t = "array") =>
          LET selections == call.args[1].arr
          IN  /\ Len(call.result) = Len(selections)
              /\ \A i \in DOMAIN selections :
                    \/ call.result[i] = TitleByPriority(selections[i], i, call.args[2])
                    \/ call.result[i] = <<"A", "d", "d", "o", "n", " ", "1">>

\* The array a payload stands for: an array itself, a single selection as a
\* one-element array, a JSON text as the array of the value it encodes, and
\* anything else, a malformed text included, as the empty array.
RECURSIVE ArrayForm(_)
ArrayForm(d) ==
    CASE d.t = "array" -> d.arr
      [] d.t = "object" -> d.arr
      [] d.t = "string" -> ArrayForm(JsonParse(d.text))
      [] OTHER -> <<>>

\* C16: parseAddons gives every payload as an array: an array as it is, a
\* single object as a one-element array, a JSON-encoded string as the array
\* form of the value it encodes, and absent input or malformed JSON as [].
C16_ParseAddonsNormalizes ==
    call.fn = "parseAddons" => call.result = ArrayForm(call.args[1])

\* The part of C16 that holds: every payload but a string encoding one object.
ParseAddonsApartFromEncodedObject ==
    (call.fn = "parseAddons"
     /\ ~(call.args[1].t = "string" /\ JsonParse(call.args[1].text).t = "object")) =>
        call.result = ArrayForm(call.args[1])

\* Neither a number nor a string of digits.
NonNumeric(v) == ~(v.t = "number" \/ (v.t = "string" /\ IsNumericString(v.s)))

ZeroText == <<"0", ".", "0", "0">>

\* C18: a non-numeric price or amount gives the 0 default at every site:
\* formatCurrency shows 0.00, the addon price is 0 and its line total 0.00,
\* the revenue adds 0, and the price cell of the products page shows 0.00.
C18_NonNumericDegradesToZero ==
    /\ (call.fn = "formatCurrency" /\ NonNumeric(call.args[1])) =>
          call.result = ZeroText
    /\ (call.fn = "safeAddon.price" /\ NonNumeric(call.args[1])) =>
          call.result = <<Num(0), ZeroText>>
    /\ (call.fn = "getOrderStats.amount" /\ NonNumeric(call.args[1])) =>
          call.result = 0
    /\ (call.fn = "formatPrice" /\ NonNumeric(call.args[1])) =>
          call.result = ZeroText

\* The part of C18 that holds: formatCurrency and the addon price; the revenue
\* of an amount with no leading digit.
NonNumericDegradesOnOrdersPage ==
    /\ (call.fn = "formatCurrency" /\ NonNumeric(call.args[1])) =>
          call.result = ZeroText
    /\ (call.fn = "safeAddon.price" /\ NonNumeric(call.args[1])) =>
          call.result = <<Num(0), ZeroText>>
    /\ (call.fn = "getOrderStats.amount" /\ NonNumeric(call.args[1])
        /\ (call.args[1].t = "string" => DigitPrefixLen(call.args[1].s) = 0)) =>
          call.result = 0


-----------------------------------------------------------------------------
(* The CSV export of the orders page (page.tsx 232-285) *)

\* x || fallback for an optional string x.
OptOr(x, fallback) == IF OptTruthy(x) THEN x[1] ELSE fallback

\* amount?.toString() || '0'
AmountText(amount) ==
    IF amount.t \in {"null", "undefined"} \/ String(amount) = <<>> THEN <<"0">>
    ELSE String(amount)

CustomerName(order) ==
    IF OptTruthy(order.shippingFirstName) /\ OptTruthy(order.shippingLastName)
    THEN order.shippingFirstName[1] \o <<" ">> \o order.shippingLastName[1]
    ELSE IF Len(order.user) = 1 /\ OptTruthy(order.user[1].name)
    THEN order.user[1].name[1]
    ELSE <<"G", "u", "e", "s", "t">>

\* [address1, city, state, country].filter(Boolean).join(', ')
ShippingAddress(order) ==
    LET parts == SelectSeq(<<order.shippingAddress1, order.shippingCity,
                             order.shippingState, order.shippingCountry>>, OptTruthy)
    IN  Join([i \in DOMAIN parts |-> parts[i][1]], <<",", " ">>)

\* new Date(createdAt).toLocaleString(): the day, then the hour of the day.
ToLocaleString(createdAt) ==
    NumToString(NewDate(createdAt) \div 24) \o <<",", " ">>
    \o NumToString(NewDate(createdAt) % 24) \o <<":", "0", "0">>

\* order.items?.length?.toString() || '0'
ItemsCount(order) ==
    IF Len(order.items) = 0 THEN <<"0">> ELSE NumToString(Len(order.items[1]))

\* The addonsText of an item (page.tsx 255-257).
AddonsText(item, catalog) ==
    LET titles == ExportAddonTitles(item.addons, catalog)
    IN  IF titles = <<>> THEN <<>>
        ELSE <<" ", "(", "A", "d", "d", "o", "n", "s", ":", " ">>
             \o Join(titles, <<",", " ">>) \o <<")">>

\* One element of itemsDetail (page.tsx 258).
ItemText(item, catalog) ==
    item.productName
    \o (IF OptTruthy(item.variantTitle)
        THEN <<" ", "(">> \o item.variantTitle[1] \o <<")">> ELSE <<>>)
    \o <<" ", "x">> \o String(item.quantity) \o AddonsText(item, catalog)

\* order.items?.map(...).join(' | ') || ''
ItemsDetail(order, catalog) ==
    IF Len(order.items) = 0 THEN <<>>
    ELSE Join([i \in DOMAIN order.items[1] |-> ItemText(order.items[1][i], catalog)],
              <<" ", "|", " ">>)

\* The row of an order before escaping (page.tsx 261-278).  status and
\* paymentStatus are held whole, as one character that is not a quote.
ExportRow(order, catalog) ==
    <<order.orderNumber,
      CustomerName(order),
      order.email,
      OptOr(order.phone, <<>>),
      <<order.status>>,
      <<order.paymentStatus>>,
      AmountText(order.subtotal),
      AmountText(order.taxAmount),
      AmountText(order.shippingAmount),
      AmountText(order.discountAmount),
      AmountText(order.totalAmount),
      OptOr(order.currency, <<"U", "S", "D">>),
      ShippingAddress(order),
      ToLocaleString(order.createdAt),
      ItemsCount(order),
      ItemsDetail(order, catalog)>>

\* The quotes of a field left as they are.
KeepQuotes(field) == field

\* field.replace(/"/g, '""')
RECURSIVE DoubleQuotes(_)
DoubleQuotes(field) ==
    IF field = <<>> THEN <<>>
    ELSE (IF Head(field) = "\"" THEN <<"\"", "\"">> ELSE <<Head(field)>>)
         \o DoubleQuotes(Tail(field))

\* `"${field?.replace(/"/g, '""') || ''}"`
QuoteField(field) == <<"\"">> \o DoubleQuotes(field) \o <<"\"">>

\* csvHeaders (page.tsx 236-240), each name held whole.
CsvHeaders ==
    <<"Order Number", "Customer Name", "Email", "Phone", "Status", "Payment Status",
      "Subtotal", "Tax Amount", "Shipping Amount", "Discount Amount", "Total Amount",
      "Currency", "Shipping Address", "Order Date", "Items Count", "Items Detail">>

\* csvContent (page.tsx 281-284) as its lines and their fields: join(',') and
\* join('\n') write them one after the other in this order.
CsvContent(rows, catalog) ==
    [header |-> CsvHeaders,
     rows |-> [i \in DOMAIN rows |->
                  LET row == ExportRow(rows[i], catalog)
                  IN  [j \in DOMAIN row |-> QuoteField(row[j])]]]

\* exportOrders, the click on the Export button: the handler has no await and
\* runs to its end in one step; the file downloaded is the result of the call.
\* The button is disabled while exporting and while filteredOrders is empty
\* (page.tsx 382).  setExporting(true) (233) and the setExporting(false) of the
\* finally block (301) are state updates of one event handler: the state after
\* the handler is the last one.
ExportOrders ==
    /\ OrdersPageShown
    /\ ~exporting
    /\ Len(filteredOrders.rows) > 0
    /\ Idle
    /\ exporting' = FALSE
    /\ call' = [fn |-> "exportOrders",
                args |-> <<>>,
                result |-> CsvContent(filteredOrders.rows, addons)]
    /\ alertMsg' = ""
    /\ ordersEvent' = Event("exportOrders", "", "", orders)
    /\ UNCHANGED <<orders, loading, orderFetches, orderDeletes, serverOrders>>
    /\ UnchangedFilters
    /\ RunEffects
    /\ UNCHANGED <<page, addonsVars, productsVars, bulkRules>>

\* exportOrders when a statement of its try block throws (a field that is not
\* a string has no replace; new Blob, URL.createObjectURL or link.click can
\* fail): no file is downloaded, the catch block alerts (page.tsx 297-299),
\* and the finally block runs as it does after a download (300-302).
ExportOrdersThrows ==
    /\ OrdersPageShown
    /\ ~exporting
    /\ Len(filteredOrders.rows) > 0
    /\ Idle
    /\ exporting' = FALSE
    /\ alertMsg' = "Failed to export orders"
    /\ ordersEvent' = Event("exportOrders", "", "throws", orders)
    /\ UNCHANGED <<orders, loading, orderFetches, orderDeletes, serverOrders>>
    /\ UnchangedFilters
    /\ RunEffects
    /\ UNCHANGED <<page, addonsVars, productsVars, utilVars>>

\* The orders page with every list loaded, the status filter and the export;
\* the download is taken before the next interaction.
InitExport == InitFilter

NextExport ==
    \/ \E r \in orderFetches : ServerAnswerOrders(r, "ok")
    \/ \E r \in orderFetches : FetchOrdersDone(r)
    \/ Idle /\ FetchAddonsDone
    \/ Idle /\ \E st \in StatusChoices : SetStatusFilter(st)
    \/ ExportOrders
    \/ ExportOrdersThrows
    \/ Return

SpecExport == InitExport /\ [][NextExport]_vars

-----------------------------------------------------------------------------
(* Properties of the export (under SpecExport) *)

\* Every quote of the string is one of a pair.
RECURSIVE QuotesPaired(_)
QuotesPaired(str) ==
    IF str = <<>> THEN TRUE
    ELSE IF Head(str) # "\"" THEN QuotesPaired(Tail(str))
    ELSE Len(str) >= 2 /\ str[2] = "\"" /\ QuotesPaired(SubSeq(str, 3, Len(str)))

\* The string with each pair of quotes read as one quote.
RECURSIVE Undoubled(_)
Undoubled(str) ==
    IF str = <<>> THEN <<>>
    ELSE IF Head(str) = "\"" THEN <<"\"">> \o Undoubled(SubSeq(str, 3, Len(str)))
    ELSE <<Head(str)>> \o Undoubled(Tail(str))

Inside(quoted) == SubSeq(quoted, 2, Len(quoted) - 1)

\* A field in double quotes whose own quotes are all doubled.
WellQuoted(quoted) ==
    /\ Len(quoted) >= 2
    /\ quoted[1] = "\"" /\ quoted[Len(quoted)] = "\""
    /\ QuotesPaired(Inside(quoted))

\* C17: the export has the fixed header of 16 names and then one row for each
\* order of filteredOrders, in its order; each row has 16 fields, each in
\* double quotes with its own double quotes doubled.
C17_ExportOfFilteredList ==
    call.fn = "exportOrders" =>
        LET csv == call.result
            shown == filteredOrders.rows
        IN  /\ csv.header = CsvHeaders /\ Len(csv.header) = 16
            /\ Len(csv.rows) = Len(shown)
            /\ \A i \in DOMAIN csv.rows :
                  /\ Len(csv.rows[i]) = 16
                  /\ \A j \in 1..16 : WellQuoted(csv.rows[i][j])
                  /\ Undoubled(Inside(csv.rows[i][1])) = shown[i].orderNumber
                  /\ Undoubled(Inside(csv.rows[i][3])) = shown[i].email
                  /\ Undoubled(Inside(csv.rows[i][13])) = ShippingAddress(shown[i])

\* Of three orders loaded the two pending ones are exported; the address of
\* the second has its quotes doubled.
C17_Witness ==
    /\ call.fn = "exportOrders"
    /\ orders.rows = <<O5, O2, O1>>
    /\ statusFilter = "pending"
    /\ Len(call.result.rows) = 2
    /\ call.result.rows[2][13] =
          <<"\"", "1", " ", "\"", "\"", "B", "\"", "\"", ",", " ", "X", "\"">>


-----------------------------------------------------------------------------
(* Frame of calculateBulkPrice (under SpecBulk) and deletes in flight       *)
(* together on the orders page (under Spec)                                 *)

\* C19: calculateBulkPrice leaves the caller's bulkRules as they were passed:
\* the same rules in the same order.
C19_BulkRulesUnchanged ==
    call.fn = "calculateBulkPrice" => bulkRules = call.args[3]

\* What does hold: the call leaves the same rules, in descending minQty.
BulkRulesRearranged ==
    call.fn = "calculateBulkPrice" =>
        /\ bulkRules \in Arrangements(call.args[3])
        /\ \A i \in 1..(Len(bulkRules) - 1) : bulkRules[i].minQty >= bulkRules[i + 1].minQty

\* C20: the step that ends a successful DELETE brings no order into the list:
\* every order of the list after it was in the list before it and is not the
\* order deleted.  So an order removed by an earlier delete stays out, and of
\* two deletes in flight together that both succeed neither order remains.
C20_DeletedOrderStaysRemoved ==
    (ordersEvent.op = "deleteDone" /\ ordersEvent.resp = "ok") =>
        Ids(orders.rows) \subseteq (Ids(ordersEvent.before.rows) \ {ordersEvent.id})

\* What does hold: the order whose DELETE just succeeded is not in the list.
DeletedOrderIsRemoved ==
    (ordersEvent.op = "deleteDone" /\ ordersEvent.resp = "ok") =>
        ordersEvent.id \notin Ids(orders.rows)


-----------------------------------------------------------------------------
(* The filtered list as a function of orders and the filters (under Spec)   *)

\* a is b with some of its elements left out, the others in b's order.
RECURSIVE IsSubList(_, _)
IsSubList(a, b) ==
    IF a = <<>> THEN TRUE
    ELSE IF b = <<>> THEN FALSE
    ELSE IF Head(a) = Head(b) THEN IsSubList(Tail(a), Tail(b))
    ELSE IsSubList(a, Tail(b))

FilterOfOrders ==
    Arr(FilterOrders(orders.rows, searchTerm, statusFilter, paymentFilter, dateRange))

\* C21: after every step of the orders page (a fetch, a filter change, a
\* delete) and the filter effect that follows it, filteredOrders is a list, a
\* sub-list of orders, and equal to the current filters applied to the current
\* orders; the statistics shown are those of that list; and the order whose
\* DELETE has just succeeded is in neither.
C21_FilteredFollowsOrders ==
    /\ filteredOrders.isArray
    /\ filteredOrders = FilterOfOrders
    /\ IsSubList(filteredOrders.rows, orders.rows)
    /\ ~loading => stats = GetOrderStats(filteredOrders.rows)
    /\ (ordersEvent.op = "deleteDone" /\ ordersEvent.resp = "ok") =>
          ordersEvent.id \notin Ids(filteredOrders.rows)

\* What does hold: the same, as long as what setOrders was given is a list.
FilteredFollowsListOfOrders ==
    orders.isArray => C21_FilteredFollowsOrders

\* A successful delete under an active status filter, in a list of two.
FilteredFollowsOrdersAfterDelete ==
    /\ ordersEvent.op = "deleteDone" /\ ordersEvent.resp = "ok"
    /\ statusFilter = "completed"
    /\ Len(ordersEvent.before.rows) = 2
    /\ orders.isArray /\ ~loading

\* The state in which the claim fails: orders is the body of a non-OK answer
\* and the page is gone, filteredOrders being the list of before the fetch.
FilteredOrdersLeftBehind ==
    /\ crashed /\ ~orders.isArray
    /\ filteredOrders.isArray /\ Len(filteredOrders.rows) > 0


-----------------------------------------------------------------------------
(* The busy flags of both pages (under SpecBusy)                            *)

\* Either page with its list request in flight, the Refresh buttons, every
\* answer a list request can get, and the export with both of its outcomes.
BusyLists == {<<>>, <<O1>>, ServerRows, <<O5, O2, O1>>}

InitBusy ==
    \/ \E rows \in BusyLists : InitPages("orders", rows)
    \/ InitPages("products", ServerRows)

OrdersAnswered == \E r \in orderFetches, kind \in FetchAnswers : ServerAnswerOrders(r, kind)
OrdersContinued == \E r \in orderFetches : FetchOrdersDone(r)
ProductsAnswered ==
    \E r \in productFetches, kind \in FetchAnswers : ServerAnswerProducts(r, kind)
ProductsContinued == \E r \in productFetches : FetchProductsDone(r)

NextBusy ==
    \/ FetchOrders
    \/ OrdersAnswered
    \/ OrdersContinued
    \/ Idle /\ \E st \in {"all", "completed"} : SetStatusFilter(st)
    \/ ExportOrders
    \/ ExportOrdersThrows
    \/ Return
    \/ FetchProducts
    \/ ProductsAnswered
    \/ ProductsContinued

\* The promise that fetch() returns settles: the browser delivers the response
\* or rejects with a network error; and the event loop runs the continuation
\* of a settled promise (the statements after the await, page.tsx 97-104,
\* products/page.tsx 14-21).  Nothing obliges the user to click.
FairBusy ==
    /\ WF_vars(OrdersAnswered)
    /\ WF_vars(OrdersContinued)
    /\ WF_vars(ProductsAnswered)
    /\ WF_vars(ProductsContinued)

SpecBusy == InitBusy /\ [][NextBusy]_vars /\ FairBusy

\* C22: on either page loading is true while the list request is in flight,
\* every fetchOrders / fetchProducts that has started comes to its end, and at
\* its end loading is false, whatever the answer was (the rows, a non-OK
\* status with a JSON body, a body that is not JSON, a rejected fetch); and
\* exporting is false after every exportOrders, with a download or an alert.
C22_BusyFlagsReleased ==
    /\ []((page = "orders" /\ orderFetches # {}) => loading)
    /\ []((page = "products" /\ productFetches # {}) => productsLoading)
    /\ (page = "orders" /\ loading) ~> (~loading /\ orderFetches = {})
    /\ (page = "products" /\ productsLoading) ~> (~productsLoading /\ productFetches = {})
    /\ [](ordersEvent.op = "fetchDone" => ~loading)
    /\ [](productsEvent.op = "fetchDone" => ~productsLoading)
    /\ [](ordersEvent.op = "exportOrders" => ~exporting)
    /\ exporting ~> ~exporting

\* A Refresh of the orders page whose fetch was rejected has come to its end.
C22_Witness ==
    /\ page = "orders"
    /\ ordersEvent.op = "fetchDone" /\ ordersEvent.resp = "reject"
    /\ orders.isArray /\ Len(orders.rows) > 0
    /\ ~loading /\ orderFetches = {}

\* Further cases of C22 that are reached.
BusyAfterUnparsableBody ==
    /\ page = "products"
    /\ productsEvent.op = "fetchDone" /\ productsEvent.resp = "errText"
    /\ ~productsLoading

BusyAfterFailedExport ==
    /\ ordersEvent.op = "exportOrders" /\ ordersEvent.resp = "throws"
    /\ alertMsg = "Failed to export orders"
    /\ ~exporting


=============================================================================
